---- MODULE Spec2Model ----
(***************************************************************************)
(* A model of cadqueryeval's geometry verifier                              *)
(* (src/src/cadqueryeval/geometry.py): the GeometryCheckResult dataclass,  *)
(* the stage functions check_watertight, check_single_component,           *)
(* check_volume and check_similarity, and the aggregator                   *)
(* perform_geometry_checks, one action per stage of the aggregator; and   *)
(* of the scorer (src/src/cadqueryeval/scorer.py): extract_code and the    *)
(* gates of geometry_scorer's score; and of the log analyser's            *)
(* parse_sample_checks (src/tools/analyze_results.py).                     *)
(*                                                                         *)
(* Specifications:                                                         *)
(*   Spec         one perform_geometry_checks call, all file facts         *)
(*   SpecResult   a GeometryCheckResult read through all_passed            *)
(*   SpecSim      one call on sound meshes, similarity inputs drawn widely *)
(*   SpecDirect   the stage functions called on their own                  *)
(*   SpecExtract  extract_code on every bounded completion                 *)
(*   SpecScorer   one call of score, through the geometry checks           *)
(*   SpecConc     two concurrent perform_geometry_checks calls             *)
(*   SpecFair     Spec with every enabled step of the call taken           *)
(*   SpecObjects  the mesh and point-cloud objects inside the stages       *)
(*   SpecFormat   format_check_results read back by parse_sample_checks    *)
(*   SpecLog      one call of score, its explanation read back             *)
(*                                                                         *)
(* Python values: an Optional value is None == <<>> or Some(x) == <<x>>;   *)
(* a string built by an f-string is the sequence of its fragments; a float *)
(* is an integer of the same unit (volumes, millimetres, percent), and a   *)
(* quotient is kept as the pair <<numerator, denominator>>.  The empty    *)
(* list and None are both <<>>: the code only tests the error list for    *)
(* truth.                                                                  *)
(***************************************************************************)
EXTENDS Integers, Sequences, FiniteSets, TLC

VARIABLES
    gen,      \* the file at generated_path, as the two geometry backends see it
    ref,      \* the file at reference_path
    cfg,      \* the keyword arguments of perform_geometry_checks
    pc,       \* the position of the call inside perform_geometry_checks
    result,   \* the GeometryCheckResult under construction (geometry.py:361)
    vol_ret,  \* locals vol_passed, ref_vol, gen_vol, vol_error (geometry.py:388)
    sim_ret,  \* locals chamfer, h95, h99, icp, bbox_acc, sim_error (geometry.py:400)
    sim_env,  \* what the backends computed inside check_similarity, once called
    stages,   \* the stage functions called so far, in call order
    verdict,  \* the value the caller read from result.all_passed
    modules,  \* the module globals open3d and trimesh (geometry.py:14-15)
    direct,   \* the return of a stage function called on its own
    completion, \* the model completion handed to the scorer
    code,     \* the code extract_code took from the completion
    scorer,   \* the state of one call of geometry_scorer's score
    peer,     \* a second perform_geometry_checks call running concurrently
    parsed,   \* what parse_sample_checks read from a Score's explanation
    heap      \* the mesh and point-cloud objects the stage functions hold

\* the variables outside one perform_geometry_checks call
\* the variables of the log analyser and of the objects inside a stage
post == <<parsed, heap>>

aux == <<direct, completion, code, scorer, peer, post>>

vars ==
    <<gen, ref, cfg, pc, result, vol_ret, sim_ret, sim_env, stages, verdict,
      modules, aux>>

----------------------------------------------------------------------------
(* Bounds of the model *)

MaxVol == 2          \* mesh volumes range over -1..MaxVol
MaxComponents == 2   \* connected components of a cleaned mesh: 1..MaxComponents
MaxDist == 2         \* distances and extents range over 0..MaxDist
MaxSegs == 5         \* a completion is made of at most MaxSegs fragments

(* Program constants *)

DEFAULT_BBOX_TOLERANCE_MM == 1
DEFAULT_CHAMFER_THRESHOLD_MM == 1
DEFAULT_HAUSDORFF_THRESHOLD_MM == 1
DEFAULT_VOLUME_THRESHOLD_PERCENT == 2
n_points == 50000        \* points sampled from each mesh
min_points == 100        \* fewer sampled points fail the similarity stage

----------------------------------------------------------------------------
(* Python values *)

None == <<>>
Some(x) == <<x>>
IsNone(o) == o = None
Val(o) == o[1]

\* Python truthiness of an Optional[str] / Optional[float]
TruthyStr(o) == o # None /\ Val(o) # <<>>
\* a plausible slip: `is not None` in place of truthiness
TruthyNum_is_not_none(o) == o # None
TruthyNum(o) == o # None /\ Val(o) # 0

Abs(x) == IF x < 0 THEN 0 - x ELSE x

\* the list s is an initial part of the list t
IsPrefix(s, t) == Len(s) <= Len(t) /\ SubSeq(t, 1, Len(s)) = s

Tri == {Some(TRUE), Some(FALSE), None}

----------------------------------------------------------------------------
(* The dataclass GeometryCheckResult (geometry.py:44-80) *)

\* GeometryCheckResult(errors=e): every other field takes its default, None
GeometryCheckResult(e) ==
    [ is_watertight |-> None, is_single_component |-> None,
      bbox_accurate |-> None, volume_passed |-> None,
      chamfer_passed |-> None, hausdorff_passed |-> None,
      chamfer_distance |-> None, hausdorff_95p |-> None,
      hausdorff_99p |-> None, icp_fitness |-> None, volume_ratio |-> None,
      reference_volume |-> None, generated_volume |-> None,
      errors |-> e ]

\* the list `checks` of the property all_passed
Checks(r) ==
    << r.is_watertight, r.is_single_component, r.bbox_accurate,
       r.volume_passed, r.chamfer_passed, r.hausdorff_passed >>

\* a plausible slip: all(c is not False for c in checks)
all_passed_lenient(r) == \A i \in 1..6 : Checks(r)[i] # Some(FALSE)

\* all(c is True for c in checks)
all_passed(r) == \A i \in 1..6 : Checks(r)[i] = Some(TRUE)

----------------------------------------------------------------------------
(* Files and the two geometry backends.  A file is described by what       *)
(* Path.exists, open3d and trimesh report about it:                         *)
(*   exists          Path(p).exists()                                       *)
(*   tri             what open3d.io.read_triangle_mesh finds: "none" (no    *)
(*                   triangles; also every file open3d cannot parse),      *)
(*                   "degenerate" (triangles, none left after clean_mesh), *)
(*                   "ok" (triangles survive clean_mesh)                    *)
(*   o3d_watertight  mesh.is_watertight() of the cleaned mesh               *)
(*   o3d_components  len(cluster_n_triangles) of the cleaned mesh           *)
(*   tm_loadable     trimesh.load(p, force="mesh") returns (else it raises)*)
(*   tm_watertight   Trimesh.is_watertight                                  *)
(*   tm_volume       Trimesh.volume                                         *)
(***************************************************************************)

\* a mesh with inverted winding has a negative volume
Volumes == (0 - 1)..MaxVol

Missing(p) ==
    [ path |-> p, exists |-> FALSE, tri |-> "none", o3d_watertight |-> FALSE,
      o3d_components |-> 1, tm_loadable |-> FALSE, tm_watertight |-> FALSE,
      tm_volume |-> 0 ]

\* the files that exist at path p; facts no code path can read are pinned
Existing(p) ==
    { f \in [ path : {p}, exists : {TRUE}, tri : {"none", "degenerate", "ok"},
              o3d_watertight : BOOLEAN, o3d_components : 1..MaxComponents,
              tm_loadable : BOOLEAN, tm_watertight : BOOLEAN,
              tm_volume : Volumes ] :
        /\ f.tri # "ok" => (~f.o3d_watertight /\ f.o3d_components = 1)
        /\ ~f.tm_loadable => (~f.tm_watertight /\ f.tm_volume = 0) }

Files(p) == {Missing(p)} \cup Existing(p)

\* open3d.io.read_triangle_mesh followed by mesh.has_triangles()
has_triangles(f) == f.tri # "none"

\* clean_mesh followed by mesh.has_triangles()
clean_mesh_has_triangles(f) == f.tri = "ok"

----------------------------------------------------------------------------
(* The lazily imported libraries (geometry.py:13-31): a module global is   *)
(* FALSE while it is None and TRUE once it is bound to the module          *)

Unloaded == [ open3d |-> FALSE, trimesh |-> FALSE ]

\* a plausible slip: the global is rebound on every call, and a call that
\* finds it bound clears it
ensure_open3d_rebinds(m) == [ m EXCEPT !.open3d = ~@ ]

ensure_open3d(m) == [ m EXCEPT !.open3d = TRUE ]

ensure_trimesh(m) == [ m EXCEPT !.trimesh = TRUE ]

----------------------------------------------------------------------------
(* check_watertight (geometry.py:93-113): returns <<is_watertight, error>> *)

\* a plausible slip: the non-manifold failure carries no message
check_watertight_silent(f) ==
    IF ~f.exists THEN <<FALSE, Some(<<"File not found: ", f.path>>)>>
    ELSE IF ~has_triangles(f) THEN <<FALSE, Some(<<"Mesh has no triangles">>)>>
    ELSE IF ~clean_mesh_has_triangles(f)
        THEN <<FALSE, Some(<<"Mesh empty after cleaning">>)>>
    ELSE IF ~f.o3d_watertight THEN <<FALSE, None>>
    ELSE <<TRUE, None>>

\* a plausible slip: the non-manifold mesh is reported and passed
check_watertight_reports_and_passes(f) ==
    IF ~f.exists THEN <<FALSE, Some(<<"File not found: ", f.path>>)>>
    ELSE IF ~has_triangles(f) THEN <<FALSE, Some(<<"Mesh has no triangles">>)>>
    ELSE IF ~clean_mesh_has_triangles(f)
        THEN <<FALSE, Some(<<"Mesh empty after cleaning">>)>>
    ELSE IF ~f.o3d_watertight
        THEN <<TRUE, Some(<<"Mesh is not manifold (non-watertight edges)">>)>>
    ELSE <<TRUE, None>>

check_watertight(f) ==
    IF ~f.exists THEN <<FALSE, Some(<<"File not found: ", f.path>>)>>
    ELSE IF ~has_triangles(f) THEN <<FALSE, Some(<<"Mesh has no triangles">>)>>
    ELSE IF ~clean_mesh_has_triangles(f)
        THEN <<FALSE, Some(<<"Mesh empty after cleaning">>)>>
    ELSE IF ~f.o3d_watertight
        THEN <<FALSE, Some(<<"Mesh is not manifold (non-watertight edges)">>)>>
    ELSE <<TRUE, None>>

(* check_single_component (geometry.py:116-141) *)

check_single_component(f, expected_components) ==
    IF ~f.exists THEN <<FALSE, Some(<<"File not found: ", f.path>>)>>
    ELSE IF ~has_triangles(f) THEN <<FALSE, Some(<<"Mesh has no triangles">>)>>
    ELSE IF ~clean_mesh_has_triangles(f)
        THEN <<FALSE, Some(<<"Mesh empty after cleaning">>)>>
    ELSE IF f.o3d_components # expected_components
        THEN <<FALSE, Some(<<"Found ", ToString(f.o3d_components),
                             " components, expected ",
                             ToString(expected_components)>>)>>
    ELSE <<TRUE, None>>

----------------------------------------------------------------------------
(* check_volume (geometry.py:144-183).  The value is the record            *)
(*   raised        an exception left the function (trimesh.load raised)    *)
(*   ret           the returned tuple <<passed, ref_vol, gen_vol, error>>  *)
(*   percent_diff  the local percent_diff: None while line 180 has not     *)
(*                 run, else Some(<<numerator, denominator>>)              *)
(***************************************************************************)

\* a plausible slip: a strict comparison
RatLeq_strict(q, t) == q[1] < t * q[2]

\* a quotient n/d compared with an integer: n / d <= t, for d > 0
RatLeq(q, t) == q[1] <= t * q[2]

VolReturn(passed, ref_vol, gen_vol, error, pd) ==
    [ raised |-> FALSE, ret |-> <<passed, ref_vol, gen_vol, error>>,
      percent_diff |-> pd ]

VolRaise == [ raised |-> TRUE, ret |-> <<>>, percent_diff |-> None ]

\* a plausible slip: the relative difference is taken against the generated volume
PercentDiff_gen_denominator(gen_vol, ref_vol) ==
    <<Abs(gen_vol - ref_vol) * 100, Abs(gen_vol)>>

\* abs(gen_vol - ref_vol) / abs(ref_vol) * 100
PercentDiff(gen_vol, ref_vol) == <<Abs(gen_vol - ref_vol) * 100, Abs(ref_vol)>>

\* a plausible slip: only the generated mesh is required to be watertight
NotWatertightError_gen_only(g, r) ==
    IF ~g.tm_watertight
        THEN Some(<<"Generated mesh not watertight for volume">>)
    ELSE None

\* a plausible slip: the reference mesh is tested first
NotWatertightError_ref_first(g, r) ==
    IF ~r.tm_watertight
        THEN Some(<<"Reference mesh not watertight for volume">>)
    ELSE IF ~g.tm_watertight
        THEN Some(<<"Generated mesh not watertight for volume">>)
    ELSE None

\* lines 169-173: the error of the watertight precondition, None if it holds
NotWatertightError(g, r) ==
    IF ~g.tm_watertight
        THEN Some(<<"Generated mesh not watertight for volume">>)
    ELSE IF ~r.tm_watertight
        THEN Some(<<"Reference mesh not watertight for volume">>)
    ELSE None

\* a plausible slip: no special case for a zero reference volume
CompareVolumes_no_zero_guard(gen_vol, ref_vol, threshold_percent) ==
    LET percent_diff == PercentDiff(gen_vol, ref_vol)
        passed == RatLeq(percent_diff, threshold_percent)
    IN  VolReturn(passed, Some(ref_vol), Some(gen_vol), None,
                  Some(percent_diff))

\* lines 175-183: the comparison of the volumes of two watertight meshes
CompareVolumes(gen_vol, ref_vol, threshold_percent) ==
    IF ref_vol = 0
        THEN IF gen_vol = 0
                 THEN VolReturn(TRUE, Some(ref_vol), Some(gen_vol), None, None)
                 ELSE VolReturn(FALSE, Some(ref_vol), Some(gen_vol),
                          Some(<<"Reference volume is zero but generated is not">>),
                          None)
    ELSE LET percent_diff == PercentDiff(gen_vol, ref_vol)
             passed == RatLeq(percent_diff, threshold_percent)
         IN  VolReturn(passed, Some(ref_vol), Some(gen_vol), None,
                       Some(percent_diff))

\* a plausible slip: the reference path is tested before the generated path
check_volume_ref_first(g, r, threshold_percent) ==
    IF ~r.exists
        THEN VolReturn(FALSE, None, None,
                       Some(<<"Reference file not found: ", r.path>>), None)
    ELSE IF ~g.exists
        THEN VolReturn(FALSE, None, None,
                       Some(<<"Generated file not found: ", g.path>>), None)
    ELSE IF ~g.tm_loadable \/ ~r.tm_loadable THEN VolRaise
    ELSE LET wt_error == NotWatertightError(g, r)
         IN  IF wt_error # None
                 THEN VolReturn(FALSE, Some(r.tm_volume), Some(g.tm_volume),
                                wt_error, None)
                 ELSE CompareVolumes(g.tm_volume, r.tm_volume,
                                     threshold_percent)

check_volume(g, r, threshold_percent) ==
    IF ~g.exists
        THEN VolReturn(FALSE, None, None,
                       Some(<<"Generated file not found: ", g.path>>), None)
    ELSE IF ~r.exists
        THEN VolReturn(FALSE, None, None,
                       Some(<<"Reference file not found: ", r.path>>), None)
    ELSE IF ~g.tm_loadable \/ ~r.tm_loadable THEN VolRaise
    ELSE LET gen_vol == g.tm_volume
             ref_vol == r.tm_volume
             wt_error == NotWatertightError(g, r)
         IN  IF wt_error # None
                 THEN VolReturn(FALSE, Some(ref_vol), Some(gen_vol), wt_error,
                                None)
                 ELSE CompareVolumes(gen_vol, ref_vol, threshold_percent)

----------------------------------------------------------------------------
(* check_similarity (geometry.py:212-335).  What open3d computes from the  *)
(* two meshes is an input of the call, the record env:                      *)
(*   gen_points, ref_points  len(pcd.points) of the sampled clouds          *)
(*   pre_gen, pre_ref   the outcome of _preprocess_for_registration        *)
(*   dist_empty         a nearest-neighbour distance array came back empty *)
(*   chamfer, h95, h99  the distance statistics of the aligned clouds      *)
(*   fitness            icp_result.fitness                                  *)
(*   gen_dims, ref_dims the bounding-box extents (generated: transformed)  *)
(* The parameters chamfer_threshold and hausdorff_threshold are not read   *)
(* by the function body and are left out.                                  *)
(***************************************************************************)

Dists == 0..MaxDist
Dims == { <<1, 1, 1>>, <<1, 1, MaxDist + 1>>, <<MaxDist + 1, 1, 1>> }

PreOutcomes == {"ok", "no_points", "no_features"}

\* a plausible slip: the empty feature set is not tested
preprocess_for_registration_unchecked(outcome) ==
    IF outcome = "no_points" THEN <<None, None>>
    ELSE <<Some("pcd_down"), Some("fpfh")>>

\* _preprocess_for_registration (geometry.py:186-209): <<pcd_down, fpfh>>
preprocess_for_registration(outcome) ==
    IF outcome = "no_points" THEN <<None, None>>
    ELSE IF outcome = "no_features" THEN <<Some("pcd_down"), None>>
    ELSE <<Some("pcd_down"), Some("fpfh")>>

\* a plausible slip: the extents are compared axis by axis
Sorted_unsorted(dims) == dims

\* sorted(...) of three extents
Sorted(dims) == SortSeq(dims, LAMBDA a, b : a < b)

\* all(d <= bbox_tolerance for d in np.abs(gen_dims - ref_dims))
BboxAccurate(gen_dims, ref_dims, bbox_tolerance) ==
    \A i \in 1..3 : Abs(gen_dims[i] - ref_dims[i]) <= bbox_tolerance

\* calls: the registration routines invoked so far by the call, in order
SimReturn(chamfer, h95, h99, icp, bbox, error) ==
    [ raised |-> FALSE, ret |-> <<chamfer, h95, h99, icp, bbox, error>>,
      calls |-> <<>> ]

SimRaise == [ raised |-> TRUE, ret |-> <<>>, calls |-> <<>> ]

\* lines 275-300: RANSAC global registration, then ICP refinement
Registered(s) == [ s EXCEPT !.calls = <<"ransac", "icp">> ]

check_similarity(g, r, bbox_tolerance, env) ==
    IF ~g.exists
        THEN SimReturn(None, None, None, None, None,
                       Some(<<"Generated file not found: ", g.path>>))
    ELSE IF ~r.exists
        THEN SimReturn(None, None, None, None, None,
                       Some(<<"Reference file not found: ", r.path>>))
    ELSE IF ~has_triangles(g)
        THEN SimReturn(None, None, None, None, None,
                       Some(<<"Generated mesh has no triangles">>))
    ELSE IF ~has_triangles(r)
        THEN SimReturn(None, None, None, None, None,
                       Some(<<"Reference mesh has no triangles">>))
    ELSE IF env.gen_points < min_points \/ env.ref_points < min_points
        THEN SimReturn(None, None, None, None, None,
                       Some(<<"Too few points sampled">>))
    ELSE LET gen_pre == preprocess_for_registration(env.pre_gen)
             ref_pre == preprocess_for_registration(env.pre_ref)
         IN  IF \/ gen_pre[1] = None \/ gen_pre[2] = None
                \/ ref_pre[1] = None \/ ref_pre[2] = None
                 THEN SimReturn(None, None, None, None, None,
                          Some(<<"Preprocessing for registration failed">>))
             ELSE IF env.dist_empty
                 THEN Registered(
                          SimReturn(None, None, None, Some(env.fitness), None,
                                    Some(<<"Distance calculation failed">>)))
             ELSE IF ~g.tm_loadable \/ ~r.tm_loadable
                 THEN Registered(SimRaise)
             ELSE Registered(
                      SimReturn(Some(env.chamfer), Some(env.h95),
                                Some(env.h99), Some(env.fitness),
                                Some(BboxAccurate(Sorted(env.gen_dims),
                                                  Sorted(env.ref_dims),
                                                  bbox_tolerance)),
                                None))

\* one similarity stage's backend outcomes
SimEnv(pre_gen, pre_ref, dist_empty, chamfer, h95, h99, fitness, gd, rd) ==
    [ gen_points |-> n_points, ref_points |-> n_points,
      pre_gen |-> pre_gen, pre_ref |-> pre_ref, dist_empty |-> dist_empty,
      chamfer |-> chamfer, h95 |-> h95, h99 |-> h99, fitness |-> fitness,
      gen_dims |-> gd, ref_dims |-> rd ]

\* preprocessing fails for at least one cloud: nothing later is computed
PreFailEnvs ==
    { SimEnv(p[1], p[2], FALSE, 0, 0, 0, 0, <<1, 1, 1>>, <<1, 1, 1>>) :
        p \in (PreOutcomes \X PreOutcomes) \ {<<"ok", "ok">>} }

\* alignment ran, a distance array is empty
DistFailEnvs ==
    { SimEnv("ok", "ok", TRUE, 0, 0, 0, f, <<1, 1, 1>>, <<1, 1, 1>>) :
        f \in 0..1 }

\* alignment and distances succeed, with the statistics drawn from ds and
\* the extents from gds and rds
MetricEnvs(ds, gds, rds) ==
    { SimEnv("ok", "ok", FALSE, t[1], t[2], t[2], 1, t[3], t[4]) :
        t \in ds \X ds \X gds \X rds }

\* the same with the 99th percentile (never below the 95th) and the ICP
\* fitness drawn freely
WideMetricEnvs(ds, fs, gds, rds) ==
    { SimEnv("ok", "ok", FALSE, t[1], t[2], t[3], t[4], t[5], t[6]) :
        t \in { u \in ds \X ds \X ds \X fs \X gds \X rds : u[2] <= u[3] } }

\* the outcomes the calls of Spec draw from
SimEnvs ==
    PreFailEnvs \cup DistFailEnvs
        \cup MetricEnvs({0, MaxDist}, {<<1, 1, 1>>},
                        {<<1, 1, 1>>, <<1, 1, MaxDist + 1>>})

----------------------------------------------------------------------------
(* perform_geometry_checks (geometry.py:338-418), one action per stage *)

\* a plausible slip: the message is put in front of the list
Append1_prepend(errors, prefix, error) ==
    << <<prefix>> \o Val(error) >> \o errors

Append1(errors, prefix, error) == Append(errors, <<prefix>> \o Val(error))

\* a plausible slip: the error is recorded but the early return is missing
GenGate_no_return ==
    /\ pc = "gen_gate"
    /\ result' = IF ~gen.exists
                     THEN [result EXCEPT !.errors =
                            Append(@, <<"Generated file not found: ", gen.path>>)]
                     ELSE result
    /\ pc' = "watertight"
    /\ UNCHANGED <<gen, ref, cfg, vol_ret, sim_ret, sim_env, stages, verdict>>
    /\ UNCHANGED modules
    /\ UNCHANGED aux

\* lines 361-368: the result is created; the generated-file gate
GenGate ==
    /\ pc = "gen_gate"
    /\ IF ~gen.exists
           THEN /\ result' = [result EXCEPT !.errors =
                       Append(@, <<"Generated file not found: ", gen.path>>)]
                /\ pc' = "returned"
           ELSE /\ pc' = "watertight"
                /\ UNCHANGED result
    /\ UNCHANGED <<gen, ref, cfg, vol_ret, sim_ret, sim_env, stages, verdict>>
    /\ UNCHANGED modules
    /\ UNCHANGED aux

\* lines 370-374
WatertightStage ==
    /\ pc = "watertight"
    /\ LET r == check_watertight(gen)
       IN  result' = [result EXCEPT
               !.is_watertight = Some(r[1]),
               !.errors = IF TruthyStr(r[2])
                              THEN Append1(@, "Watertight: ", r[2]) ELSE @]
    /\ stages' = Append(stages, "check_watertight")
    /\ pc' = "components"
    /\ UNCHANGED <<gen, ref, cfg, vol_ret, sim_ret, sim_env, verdict>>
    /\ modules' = ensure_open3d(modules)
    /\ UNCHANGED aux

\* lines 376-380
ComponentStage ==
    /\ pc = "components"
    /\ LET r == check_single_component(gen, cfg.expected_components)
       IN  result' = [result EXCEPT
               !.is_single_component = Some(r[1]),
               !.errors = IF TruthyStr(r[2])
                              THEN Append1(@, "Components: ", r[2]) ELSE @]
    /\ stages' = Append(stages, "check_single_component")
    /\ pc' = "ref_gate"
    /\ UNCHANGED <<gen, ref, cfg, vol_ret, sim_ret, sim_env, verdict>>
    /\ modules' = ensure_open3d(modules)
    /\ UNCHANGED aux

\* a plausible slip: the error is recorded but the early return is missing
RefGate_no_return ==
    /\ pc = "ref_gate"
    /\ result' = IF ~ref.exists
                     THEN [result EXCEPT !.errors =
                            Append(@, <<"Reference file not found: ", ref.path>>)]
                     ELSE result
    /\ pc' = "volume"
    /\ UNCHANGED <<gen, ref, cfg, vol_ret, sim_ret, sim_env, stages, verdict>>
    /\ UNCHANGED modules
    /\ UNCHANGED aux

\* lines 382-385: the reference-file gate
RefGate ==
    /\ pc = "ref_gate"
    /\ IF ~ref.exists
           THEN /\ result' = [result EXCEPT !.errors =
                       Append(@, <<"Reference file not found: ", ref.path>>)]
                /\ pc' = "returned"
           ELSE /\ pc' = "volume"
                /\ UNCHANGED result
    /\ UNCHANGED <<gen, ref, cfg, vol_ret, sim_ret, sim_env, stages, verdict>>
    /\ UNCHANGED modules
    /\ UNCHANGED aux

\* gen_vol / ref_vol
VolumeRatio(gen_vol, ref_vol) == <<gen_vol, ref_vol>>

\* a plausible slip: the verdict of the volume check is not recorded
VolumeStage_verdict_dropped ==
    /\ pc = "volume"
    /\ LET v == check_volume(gen, ref, cfg.volume_threshold_percent)
       IN  /\ vol_ret' = Some(v)
           /\ IF v.raised
                  THEN /\ pc' = "raised"
                       /\ UNCHANGED result
                  ELSE /\ pc' = "similarity"
                       /\ result' = [result EXCEPT
                            !.reference_volume = v.ret[2],
                            !.generated_volume = v.ret[3],
                            !.errors = IF TruthyStr(v.ret[4])
                                           THEN Append1(@, "Volume: ", v.ret[4])
                                           ELSE @]
    /\ stages' = Append(stages, "check_volume")
    /\ UNCHANGED <<gen, ref, cfg, sim_ret, sim_env, verdict>>
    /\ modules' = ensure_trimesh(modules)
    /\ UNCHANGED aux

\* lines 387-397; an exception raised inside check_volume leaves the call
VolumeStage ==
    /\ pc = "volume"
    /\ LET v == check_volume(gen, ref, cfg.volume_threshold_percent)
       IN  /\ vol_ret' = Some(v)
           /\ IF v.raised
                  THEN /\ pc' = "raised"
                       /\ UNCHANGED result
                  ELSE /\ pc' = "similarity"
                       /\ result' = [result EXCEPT
                            !.volume_passed = Some(v.ret[1]),
                            !.reference_volume = v.ret[2],
                            !.generated_volume = v.ret[3],
                            !.volume_ratio =
                                IF TruthyNum(v.ret[2]) /\ TruthyNum(v.ret[3])
                                    THEN Some(VolumeRatio(Val(v.ret[3]),
                                                          Val(v.ret[2])))
                                    ELSE @,
                            !.errors = IF TruthyStr(v.ret[4])
                                           THEN Append1(@, "Volume: ", v.ret[4])
                                           ELSE @]
    /\ stages' = Append(stages, "check_volume")
    /\ UNCHANGED <<gen, ref, cfg, sim_ret, sim_env, verdict>>
    /\ modules' = ensure_trimesh(modules)
    /\ UNCHANGED aux

\* a plausible slip: a strict comparison
ChamferPassed_strict(chamfer, chamfer_threshold) ==
    chamfer < chamfer_threshold

\* line 411
ChamferPassed(chamfer, chamfer_threshold) == chamfer <= chamfer_threshold

\* line 413
HausdorffPassed(h95, hausdorff_threshold) == h95 <= hausdorff_threshold

\* a plausible slip: the thresholds are applied to absent metrics too, an
\* absent metric failing its check
SimilarityUpdate_unguarded(r, s, c) ==
    [ r EXCEPT
        !.chamfer_distance = s.ret[1],
        !.hausdorff_95p = s.ret[2],
        !.hausdorff_99p = s.ret[3],
        !.icp_fitness = s.ret[4],
        !.bbox_accurate = s.ret[5],
        !.chamfer_passed =
            Some(s.ret[1] # None
                   /\ ChamferPassed(Val(s.ret[1]), c.chamfer_threshold)),
        !.hausdorff_passed =
            Some(s.ret[2] # None
                   /\ HausdorffPassed(Val(s.ret[2]), c.hausdorff_threshold)),
        !.errors = IF TruthyStr(s.ret[6])
                       THEN Append1(@, "Similarity: ", s.ret[6])
                       ELSE @ ]

\* lines 405-416: the fields recorded from check_similarity's return s
SimilarityUpdate(r, s, c) ==
    [ r EXCEPT
        !.chamfer_distance = s.ret[1],
        !.hausdorff_95p = s.ret[2],
        !.hausdorff_99p = s.ret[3],
        !.icp_fitness = s.ret[4],
        !.bbox_accurate = s.ret[5],
        !.chamfer_passed =
            IF s.ret[1] # None
                THEN Some(ChamferPassed(Val(s.ret[1]), c.chamfer_threshold))
                ELSE @,
        !.hausdorff_passed =
            IF s.ret[2] # None
                THEN Some(HausdorffPassed(Val(s.ret[2]), c.hausdorff_threshold))
                ELSE @,
        !.errors = IF TruthyStr(s.ret[6])
                       THEN Append1(@, "Similarity: ", s.ret[6])
                       ELSE @ ]

\* lines 399-418, with the backend outcomes drawn from envs
SimilarityStageOver(envs) ==
    /\ pc = "similarity"
    /\ \E env \in envs :
         LET s == check_similarity(gen, ref, cfg.bbox_tolerance, env)
         IN  /\ sim_ret' = Some(s)
             /\ sim_env' = Some(env)
             /\ IF s.raised
                    THEN /\ pc' = "raised"
                         /\ UNCHANGED result
                    ELSE /\ pc' = "returned"
                         /\ result' = SimilarityUpdate(result, s, cfg)
    /\ stages' = Append(stages, "check_similarity")
    /\ UNCHANGED <<gen, ref, cfg, vol_ret, verdict>>
    /\ modules' = ensure_trimesh(ensure_open3d(modules))
    /\ UNCHANGED aux

SimilarityStage == SimilarityStageOver(SimEnvs)

\* the caller reads the property all_passed of the returned result
AllPassedRead ==
    /\ pc \in {"returned", "constructed"}
    /\ verdict = None
    /\ verdict' = Some(all_passed(result))
    /\ UNCHANGED <<gen, ref, cfg, pc, result, vol_ret, sim_ret, sim_env, stages>>
    /\ UNCHANGED modules
    /\ UNCHANGED aux

----------------------------------------------------------------------------
(* The calls: every pair of files and every threshold configuration *)

\* nothing but one perform_geometry_checks call is running
AuxIdle ==
    /\ direct = None
    /\ completion = None
    /\ code = None
    /\ scorer = None
    /\ peer = None
    /\ parsed = None
    /\ heap = None

VolumeThresholds == {0, DEFAULT_VOLUME_THRESHOLD_PERCENT, 50}

Configs ==
    [ expected_components : 1..MaxComponents,
      chamfer_threshold : {DEFAULT_CHAMFER_THRESHOLD_MM},
      hausdorff_threshold : {DEFAULT_HAUSDORFF_THRESHOLD_MM},
      volume_threshold_percent : VolumeThresholds,
      bbox_tolerance : {DEFAULT_BBOX_TOLERANCE_MM} ]

\* the reference file: another file, or the generated file itself; open3d's
\* watertight and component answers are never asked of the reference
ReferenceFiles ==
    { f \in Files("reference.stl") :
        ~f.o3d_watertight /\ f.o3d_components = 1 /\ f.tri # "degenerate" }

Init ==
    /\ gen \in Files("generated.stl")
    /\ ref \in ReferenceFiles \cup {gen}
    /\ cfg \in Configs
    /\ pc = "gen_gate"
    /\ result = GeometryCheckResult(<<>>)
    /\ vol_ret = None
    /\ sim_ret = None
    /\ sim_env = None
    /\ stages = <<>>
    /\ verdict = None
    /\ modules = Unloaded
    /\ AuxIdle

Next ==
    \/ GenGate
    \/ WatertightStage
    \/ ComponentStage
    \/ RefGate
    \/ VolumeStage
    \/ SimilarityStage

Spec == Init /\ [][Next]_vars

----------------------------------------------------------------------------
(* A GeometryCheckResult built field by field, as the unit tests build it, *)
(* and read through all_passed                                             *)

SomeErrors == { <<>>, << <<"Watertight: ", "Mesh has no triangles">> >> }

Results ==
    { [ GeometryCheckResult(t[7]) EXCEPT
          !.is_watertight = t[1], !.is_single_component = t[2],
          !.bbox_accurate = t[3], !.volume_passed = t[4],
          !.chamfer_passed = t[5], !.hausdorff_passed = t[6],
          !.chamfer_distance = t[8] ] :
        t \in Tri \X Tri \X Tri \X Tri \X Tri \X Tri \X SomeErrors
                \X {None, Some(0), Some(MaxDist)} }

InitResult ==
    /\ gen = Missing("generated.stl")
    /\ ref = Missing("reference.stl")
    /\ cfg \in { c \in Configs :
                   /\ c.expected_components = 1
                   /\ c.volume_threshold_percent = DEFAULT_VOLUME_THRESHOLD_PERCENT }
    /\ pc = "constructed"
    /\ result \in Results
    /\ vol_ret = None
    /\ sim_ret = None
    /\ sim_env = None
    /\ stages = <<>>
    /\ verdict = None
    /\ modules = Unloaded
    /\ AuxIdle

NextResult == AllPassedRead

SpecResult == InitResult /\ [][NextResult]_vars

----------------------------------------------------------------------------
(* Properties *)

Returned == pc = "returned"

BooleansAbsent(r, fields) == \A f \in fields : r[f] = None

MetricFields ==
    { "chamfer_distance", "hausdorff_95p", "hausdorff_99p", "icp_fitness",
      "volume_ratio" }
VolumeFields == { "reference_volume", "generated_volume" }
BooleanFields ==
    { "is_watertight", "is_single_component", "bbox_accurate",
      "volume_passed", "chamfer_passed", "hausdorff_passed" }

\* C1: all_passed is true exactly when each of the six booleans is True;
\* a None or a False among them makes it false, whatever the metrics and
\* the error list hold.
C1_AllPassedIffSixTrue ==
    verdict # None =>
        ( Val(verdict) <=>
            /\ result.is_watertight = Some(TRUE)
            /\ result.is_single_component = Some(TRUE)
            /\ result.bbox_accurate = Some(TRUE)
            /\ result.volume_passed = Some(TRUE)
            /\ result.chamfer_passed = Some(TRUE)
            /\ result.hausdorff_passed = Some(TRUE) )

\* all_passed was read from a result whose only flaw is one absent boolean
C1_Witness ==
    /\ verdict = Some(FALSE)
    /\ result.bbox_accurate = None
    /\ \A f \in BooleanFields \ {"bbox_accurate"} : result[f] = Some(TRUE)
    /\ result.chamfer_distance = Some(0)
    /\ result.errors = <<>>

\* C2: with the generated file missing, the returned result has a
\* non-empty error list, no boolean, no metric and no volume, and no stage
\* function was called, whether or not the reference file exists.
C2_MissingGeneratedOnlyErrors ==
    (Returned /\ ~gen.exists) =>
        /\ Len(result.errors) > 0
        /\ BooleansAbsent(result, BooleanFields \cup MetricFields \cup VolumeFields)
        /\ stages = <<>>

C2_Witness ==
    /\ Returned /\ ~gen.exists /\ ref.exists
    /\ result.errors = << <<"Generated file not found: ", gen.path>> >>

\* C3: with the generated file present and the reference file missing, the
\* returned result has is_watertight and is_single_component populated,
\* every other boolean, every metric and both volumes absent, and a
\* reference-file-not-found message in the error list.
C3_MissingReferenceKeepsTopology ==
    (Returned /\ gen.exists /\ ~ref.exists) =>
        /\ result.is_watertight \in {Some(TRUE), Some(FALSE)}
        /\ result.is_single_component \in {Some(TRUE), Some(FALSE)}
        /\ BooleansAbsent(result,
              (BooleanFields \ {"is_watertight", "is_single_component"})
                  \cup MetricFields \cup VolumeFields)
        /\ \E i \in 1..Len(result.errors) :
              result.errors[i] = <<"Reference file not found: ", ref.path>>

C3_Witness ==
    /\ Returned /\ gen.exists /\ ~ref.exists
    /\ result.is_watertight = Some(TRUE)
    /\ result.is_single_component = Some(FALSE)
    /\ Len(result.errors) = 2

AllStages ==
    << "check_watertight", "check_single_component", "check_volume",
       "check_similarity" >>

HasError(msg) == \E i \in 1..Len(result.errors) : result.errors[i] = msg

HasErrorFrom(prefix) ==
    \E i \in 1..Len(result.errors) : result.errors[i][1] = prefix

\* check_volume was called and returned its tuple
VolumeReturned == vol_ret # None /\ ~Val(vol_ret).raised
VolTuple == Val(vol_ret).ret

\* check_volume returned after loading two watertight meshes
VolumeCompared ==
    VolumeReturned /\ gen.tm_watertight /\ ref.tm_watertight

\* C4: with both files present, a call that ends has run the four stages,
\* each once, in the order watertight, components, volume, similarity.
C4_AllStagesRunInOrder ==
    (pc \in {"returned", "raised"} /\ gen.exists /\ ref.exists)
        => stages = AllStages

\* the part of C4 that the code keeps: a call that returns with both files
\* present has run the four stages in order, and no stage ever runs twice
C4_ReturnedRanAllStages ==
    /\ (Returned /\ gen.exists /\ ref.exists) => stages = AllStages
    /\ \E n \in 0..4 : stages = SubSeq(AllStages, 1, n)

\* C5: no call of perform_geometry_checks ends with an exception reaching
\* the caller.
C5_NeverRaises == pc # "raised"

\* C6: in a returned result every failure of the error taxonomy has left
\* the boolean of the affected check False or None and a message in the
\* error list.
C6_FailuresDegradeAndReport ==
    Returned =>
        /\ ~gen.exists =>
              /\ BooleansAbsent(result, BooleanFields)
              /\ HasError(<<"Generated file not found: ", gen.path>>)
        /\ (gen.exists /\ ~ref.exists) =>
              /\ BooleansAbsent(result,
                    {"volume_passed", "bbox_accurate", "chamfer_passed",
                     "hausdorff_passed"})
              /\ HasError(<<"Reference file not found: ", ref.path>>)
        /\ (gen.exists /\ gen.tri = "none") =>
              /\ result.is_watertight = Some(FALSE)
              /\ result.is_single_component = Some(FALSE)
              /\ HasError(<<"Watertight: ", "Mesh has no triangles">>)
              /\ HasError(<<"Components: ", "Mesh has no triangles">>)
        /\ (gen.exists /\ gen.tri = "degenerate") =>
              /\ result.is_watertight = Some(FALSE)
              /\ result.is_single_component = Some(FALSE)
              /\ HasError(<<"Watertight: ", "Mesh empty after cleaning">>)
              /\ HasError(<<"Components: ", "Mesh empty after cleaning">>)
        /\ (gen.exists /\ ref.exists /\ (gen.tri = "none" \/ ref.tri = "none")) =>
              /\ BooleansAbsent(result,
                    {"bbox_accurate", "chamfer_passed", "hausdorff_passed"})
              /\ HasErrorFrom("Similarity: ")
        /\ (gen.exists /\ gen.tri = "ok" /\ ~gen.o3d_watertight) =>
              /\ result.is_watertight = Some(FALSE)
              /\ HasErrorFrom("Watertight: ")
        /\ (gen.exists /\ gen.tri = "ok"
                /\ gen.o3d_components # cfg.expected_components) =>
              /\ result.is_single_component = Some(FALSE)
              /\ HasErrorFrom("Components: ")
        /\ (gen.exists /\ ref.exists /\ (~gen.tm_watertight \/ ~ref.tm_watertight)) =>
              /\ result.volume_passed = Some(FALSE)
              /\ HasErrorFrom("Volume: ")
        /\ (VolumeCompared /\ ref.tm_volume = 0 /\ gen.tm_volume # 0) =>
              /\ result.volume_passed = Some(FALSE)
              /\ HasError(<<"Volume: ",
                            "Reference volume is zero but generated is not">>)
        /\ (/\ sim_env # None /\ has_triangles(gen) /\ has_triangles(ref)
            /\ (Val(sim_env).pre_gen # "ok" \/ Val(sim_env).pre_ref # "ok")) =>
              /\ BooleansAbsent(result,
                    {"bbox_accurate", "chamfer_passed", "hausdorff_passed"})
              /\ HasError(<<"Similarity: ",
                            "Preprocessing for registration failed">>)
        /\ (/\ sim_env # None /\ has_triangles(gen) /\ has_triangles(ref)
            /\ Val(sim_env).pre_gen = "ok" /\ Val(sim_env).pre_ref = "ok"
            /\ Val(sim_env).dist_empty) =>
              /\ BooleansAbsent(result,
                    {"bbox_accurate", "chamfer_passed", "hausdorff_passed"})
              /\ HasError(<<"Similarity: ", "Distance calculation failed">>)

\* a result returned after a non-manifold mesh, a component mismatch, a
\* mesh not watertight for volume and a failed preprocessing
C6_Witness ==
    /\ Returned /\ gen.exists /\ ref.exists
    /\ gen.tri = "ok" /\ ~gen.o3d_watertight
    /\ gen.o3d_components # cfg.expected_components
    /\ ~ref.tm_watertight
    /\ sim_env # None /\ Val(sim_env).pre_ref = "no_features"
    /\ Len(result.errors) = 4

\* C7: for two watertight meshes and a zero reference volume, check_volume
\* passes without error when the generated volume is zero too, and fails
\* with the zero-reference error when it is not, for every threshold; the
\* percentage is never computed.
C7_ZeroReferenceVolume ==
    (VolumeCompared /\ ref.tm_volume = 0) =>
        /\ Val(vol_ret).percent_diff = None
        /\ IF gen.tm_volume = 0
               THEN VolTuple = <<TRUE, Some(0), Some(0), None>>
               ELSE VolTuple = <<FALSE, Some(0), Some(gen.tm_volume),
                     Some(<<"Reference volume is zero but generated is not">>)>>

C7_Witness ==
    /\ VolumeCompared /\ ref.tm_volume = 0 /\ gen.tm_volume = MaxVol
    /\ cfg.volume_threshold_percent = 50
    /\ VolTuple[1] = FALSE

\* C8: for two watertight meshes and a nonzero reference volume, passed is
\* true exactly when |gen - ref| / |ref| * 100 <= threshold, the boundary
\* included, the denominator being the reference volume.
C8_PercentOfReference ==
    (VolumeCompared /\ ref.tm_volume # 0) =>
        /\ VolTuple[1] =
              ( Abs(gen.tm_volume - ref.tm_volume) * 100
                    <= cfg.volume_threshold_percent * Abs(ref.tm_volume) )
        /\ VolTuple[4] = None

\* the check passes on the boundary (1 against 2 at 50 percent) and fails
\* with generated and reference swapped
C8_Witness ==
    /\ VolumeCompared
    /\ gen.tm_volume = 1 /\ ref.tm_volume = 2
    /\ cfg.volume_threshold_percent = 50
    /\ VolTuple[1] = TRUE
    /\ check_volume(ref, gen, cfg.volume_threshold_percent).ret[1] = FALSE

\* C9: when either mesh is not watertight, check_volume returns passed =
\* False with an error and both volumes and computes no percentage, and
\* perform_geometry_checks records volume_passed = False, both volumes and
\* a 'Volume:' error.
C9_NotWatertightFailsWithVolumes ==
    (VolumeReturned /\ (~gen.tm_watertight \/ ~ref.tm_watertight)) =>
        /\ VolTuple[1] = FALSE
        /\ VolTuple[2] = Some(ref.tm_volume)
        /\ VolTuple[3] = Some(gen.tm_volume)
        /\ VolTuple[4] # None
        /\ Val(vol_ret).percent_diff = None
        /\ result.volume_passed = Some(FALSE)
        /\ result.reference_volume = Some(ref.tm_volume)
        /\ result.generated_volume = Some(gen.tm_volume)
        /\ HasError(<<"Volume: ">> \o Val(VolTuple[4]))

C9_Witness ==
    /\ VolumeReturned /\ gen.tm_watertight /\ ~ref.tm_watertight
    /\ gen.tm_volume = 1 /\ ref.tm_volume = 1
    /\ result.volume_passed = Some(FALSE)
    /\ Returned

\* C10 as stated: a mesh that is not watertight is always the one the
\* volume stage reports, the reference also when the generated mesh is not
\* watertight either.
C10_EachReportedIndependently ==
    VolumeReturned =>
        /\ ~ref.tm_watertight =>
              HasError(<<"Volume: ", "Reference mesh not watertight for volume">>)
        /\ ~gen.tm_watertight =>
              HasError(<<"Volume: ", "Generated mesh not watertight for volume">>)

\* C10, amended: the generated mesh is tested first and one message is
\* reported: the generated mesh whenever it is not watertight, the
\* reference mesh exactly when it is not watertight and the generated is.
C10_GeneratedReportedFirst ==
    VolumeReturned =>
        /\ ~gen.tm_watertight =>
              /\ VolTuple[4] = Some(<<"Generated mesh not watertight for volume">>)
              /\ HasError(<<"Volume: ", "Generated mesh not watertight for volume">>)
              /\ ~HasError(<<"Volume: ", "Reference mesh not watertight for volume">>)
        /\ (gen.tm_watertight /\ ~ref.tm_watertight) =>
              /\ VolTuple[4] = Some(<<"Reference mesh not watertight for volume">>)
              /\ HasError(<<"Volume: ", "Reference mesh not watertight for volume">>)
        /\ HasError(<<"Volume: ", "Reference mesh not watertight for volume">>)
              => (gen.tm_watertight /\ ~ref.tm_watertight)

\* neither mesh is watertight and the volume stage has reported
C10_Witness ==
    /\ VolumeReturned /\ ~gen.tm_watertight /\ ~ref.tm_watertight
    /\ gen.path # ref.path
    /\ HasError(<<"Volume: ", "Generated mesh not watertight for volume">>)

----------------------------------------------------------------------------
(* Calls on two sound meshes of equal volume, with the similarity          *)
(* thresholds chosen by the caller and the distance statistics, the ICP    *)
(* fitness and the bounding-box extents drawn widely                       *)

Perm3 == Permutations(1..3)

\* the extents d with the axes renamed by the permutation p
Permuted(d, p) == [ i \in 1..3 |-> d[p[i]] ]

WideDims ==
    { Permuted(d, p) :
        d \in { <<1, 1, 1>>, <<1, 1, MaxDist + 1>>, <<1, MaxDist, MaxDist + 1>> },
        p \in Perm3 }

Fitnesses == 0..1

WideSimEnvs ==
    PreFailEnvs \cup DistFailEnvs
        \cup WideMetricEnvs(Dists, Fitnesses, {<<1, 1, 1>>}, {<<1, 1, 1>>})
        \cup WideMetricEnvs({0}, {1}, WideDims, WideDims)

SoundMesh(p) ==
    [ path |-> p, exists |-> TRUE, tri |-> "ok", o3d_watertight |-> TRUE,
      o3d_components |-> 1, tm_loadable |-> TRUE, tm_watertight |-> TRUE,
      tm_volume |-> 1 ]

SimConfigs ==
    [ expected_components : {1},
      chamfer_threshold : Dists,
      hausdorff_threshold : Dists,
      volume_threshold_percent : {DEFAULT_VOLUME_THRESHOLD_PERCENT},
      bbox_tolerance : Dists ]

InitSim ==
    /\ gen = SoundMesh("generated.stl")
    /\ ref = SoundMesh("reference.stl")
    /\ cfg \in SimConfigs
    /\ pc = "gen_gate"
    /\ result = GeometryCheckResult(<<>>)
    /\ vol_ret = None
    /\ sim_ret = None
    /\ sim_env = None
    /\ stages = <<>>
    /\ verdict = None
    /\ modules = Unloaded
    /\ AuxIdle

SimilarityStageWide == SimilarityStageOver(WideSimEnvs)

NextSim ==
    \/ GenGate
    \/ WatertightStage
    \/ ComponentStage
    \/ RefGate
    \/ VolumeStage
    \/ SimilarityStageWide
    \/ AllPassedRead

SpecSim == InitSim /\ [][NextSim]_vars

----------------------------------------------------------------------------
(* The four stage functions called on their own, as the unit tests call    *)
(* them                                                                    *)

\* the variables of a perform_geometry_checks call
call ==
    <<gen, ref, cfg, pc, result, vol_ret, sim_ret, sim_env, stages, verdict>>

\* what a direct call handed back: a returned tuple, or an exception
Returns(fn, ret) == Some([ fn |-> fn, raised |-> FALSE, ret |-> ret ])

Handed(fn, r) == Some([ fn |-> fn, raised |-> r.raised, ret |-> r.ret ])

CallCheckWatertight ==
    /\ pc = "direct" /\ direct = None
    /\ direct' = Returns("check_watertight", check_watertight(gen))
    /\ modules' = ensure_open3d(modules)
    /\ UNCHANGED <<call, completion, code, scorer, peer, post>>

CallCheckSingleComponent ==
    /\ pc = "direct" /\ direct = None
    /\ direct' = Returns("check_single_component",
                     check_single_component(gen, cfg.expected_components))
    /\ modules' = ensure_open3d(modules)
    /\ UNCHANGED <<call, completion, code, scorer, peer, post>>

CallCheckVolume ==
    /\ pc = "direct" /\ direct = None
    /\ direct' = Handed("check_volume",
                     check_volume(gen, ref, cfg.volume_threshold_percent))
    /\ modules' = ensure_trimesh(modules)
    /\ UNCHANGED <<call, completion, code, scorer, peer, post>>

CallCheckSimilarity ==
    /\ pc = "direct" /\ direct = None
    /\ \E env \in SimEnvs :
         direct' = Handed("check_similarity",
                      check_similarity(gen, ref, cfg.bbox_tolerance, env))
    /\ modules' = ensure_trimesh(ensure_open3d(modules))
    /\ UNCHANGED <<call, completion, code, scorer, peer, post>>

InitDirect ==
    /\ gen \in Files("generated.stl")
    /\ ref \in ReferenceFiles
    /\ cfg \in { c \in Configs :
                   /\ c.expected_components = 1
                   /\ c.volume_threshold_percent = DEFAULT_VOLUME_THRESHOLD_PERCENT }
    /\ pc = "direct"
    /\ result = GeometryCheckResult(<<>>)
    /\ vol_ret = None
    /\ sim_ret = None
    /\ sim_env = None
    /\ stages = <<>>
    /\ verdict = None
    /\ modules = Unloaded
    /\ direct = None
    /\ completion = None
    /\ code = None
    /\ scorer = None
    /\ peer = None
    /\ parsed = None
    /\ heap = None

NextDirect ==
    \/ CallCheckWatertight
    \/ CallCheckSingleComponent
    \/ CallCheckVolume
    \/ CallCheckSimilarity

SpecDirect == InitDirect /\ [][NextDirect]_vars

----------------------------------------------------------------------------
(* extract_code (scorer.py:56-73).  A completion is a sequence of tokens:  *)
(*   "F"  three backticks          "p"  the word python                    *)
(*   "n"  a newline                "a"  other text without whitespace      *)

Whitespace == {"n"}

Fragments ==
    { <<"F", "p", "n">>, <<"F", "a", "n">>, <<"F", "n">>, <<"F">>,
      <<"a">>, <<"n">>, <<"p">> }

RECURSIVE CompletionsOf(_)
CompletionsOf(k) ==
    IF k = 0 THEN { <<>> }
    ELSE LET shorter == CompletionsOf(k - 1)
         IN  shorter \cup { c \o f : c \in shorter, f \in Fragments }

Completions == CompletionsOf(MaxSegs)

\* the literal prefixes of the two regular expressions (lines 63-64); both
\* go on with (.*?) and three backticks, and the dot matches newlines
PYTHON_BLOCK == <<"F", "p", "n">>
GENERIC_BLOCK == <<"F", "n">>

patterns == <<PYTHON_BLOCK, GENERIC_BLOCK>>

StartsWith(s, i, prefix) ==
    /\ i + Len(prefix) - 1 <= Len(s)
    /\ SubSeq(s, i, i + Len(prefix) - 1) = prefix

\* the position of the first fence at or after i, 0 when there is none
NextFence(s, i) ==
    LET js == { j \in i..Len(s) : s[j] = "F" }
    IN  IF js = {} THEN 0 ELSE CHOOSE j \in js : \A k \in js : j <= k

\* pattern.findall scanning from position i: the groups of the
\* non-overlapping matches, leftmost first, each group as short as possible
RECURSIVE findall_from(_, _, _)
findall_from(prefix, s, i) ==
    IF i > Len(s) THEN <<>>
    ELSE LET body == i + Len(prefix)
             close == NextFence(s, body)
         IN  IF StartsWith(s, i, prefix) /\ close # 0
                 THEN <<SubSeq(s, body, close - 1)>>
                          \o findall_from(prefix, s, close + 1)
                 ELSE findall_from(prefix, s, i + 1)

findall(prefix, s) == findall_from(prefix, s, 1)

RECURSIVE lstrip(_)
lstrip(s) ==
    IF s # <<>> /\ Head(s) \in Whitespace THEN lstrip(Tail(s)) ELSE s

RECURSIVE rstrip(_)
rstrip(s) ==
    IF s # <<>> /\ s[Len(s)] \in Whitespace
        THEN rstrip(SubSeq(s, 1, Len(s) - 1))
        ELSE s

\* str.strip()
strip(s) == rstrip(lstrip(s))

\* the loop of lines 67-70 from the k-th pattern on, then line 73
RECURSIVE extract_code_from(_, _)
extract_code_from(c, k) ==
    IF k > Len(patterns) THEN strip(c)
    ELSE LET matches == findall(patterns[k], c)
         IN  IF matches # <<>> THEN strip(matches[1])
             ELSE extract_code_from(c, k + 1)

extract_code(c) == extract_code_from(c, 1)

\* scorer.py:134
ExtractCode ==
    /\ pc = "extract" /\ code = None
    /\ code' = Some(extract_code(Val(completion)))
    /\ UNCHANGED <<call, modules, direct, completion, scorer, peer, post>>

InitExtract ==
    /\ gen = Missing("generated.stl")
    /\ ref = Missing("reference.stl")
    /\ cfg \in { c \in Configs :
                   /\ c.expected_components = 1
                   /\ c.volume_threshold_percent = DEFAULT_VOLUME_THRESHOLD_PERCENT }
    /\ pc = "extract"
    /\ result = GeometryCheckResult(<<>>)
    /\ vol_ret = None
    /\ sim_ret = None
    /\ sim_env = None
    /\ stages = <<>>
    /\ verdict = None
    /\ modules = Unloaded
    /\ direct = None
    /\ completion \in { Some(c) : c \in Completions }
    /\ code = None
    /\ scorer = None
    /\ peer = None
    /\ parsed = None
    /\ heap = None

NextExtract == ExtractCode

SpecExtract == InitExtract /\ [][NextExtract]_vars

----------------------------------------------------------------------------
(* The explanation of a Score (scorer.py:31-110) and the log analyser that *)
(* reads it back (tools/analyze_results.py:114-191).  A text is the        *)
(* sequence of its words; the blanks between two words are not kept, but   *)
(* the separators the analyser looks for are words of their own: "n" is    *)
(* the newline, "- " the bullet, ": " the colon followed by a blank and    *)
(* ":" a colon followed by anything else.                                  *)

EXECUTION_TIMEOUT == 60

ERROR_NO_CODE == <<"No", "code", "found", "in", "model", "output">>
ERROR_TIMEOUT == <<"Code", "execution", "timed", "out">>
ERROR_EXEC_FAILED == <<"Code", "execution", "failed">>
ERROR_NO_STL ==
    <<"Code", "executed", "but", "output.stl", "was", "not", "created">>
ERROR_READ_STL_FAILED ==
    <<"Failed", "to", "read", "generated", "STL", "from", "sandbox",
      "(base64", "error)">>
ERROR_DECODE_STL_FAILED ==
    <<"Failed", "to", "decode", "generated", "STL", "from", "sandbox">>
ERROR_REF_STL_NOT_FOUND == <<"Reference", "STL", "not", "found">>

HEADER_CHECK_RESULTS == <<"Geometry", "Check", "Results">>
HEADER_METRICS == <<"Metrics">>
HEADER_ERRORS == <<"Errors">>

LABEL_WATERTIGHT == <<"Watertight">>
LABEL_SINGLE_COMPONENT == <<"Single", "Component">>
LABEL_BBOX == <<"Bounding", "Box">>
LABEL_VOLUME == <<"Volume">>
LABEL_CHAMFER == <<"Chamfer", "Distance">>
LABEL_HAUSDORFF == <<"Hausdorff", "95p">>
LABEL_CHAMFER_METRIC == <<"Chamfer", "Distance">>
LABEL_HAUSDORFF_METRIC == <<"Hausdorff", "95p">>
LABEL_ICP_FITNESS == <<"ICP", "Fitness">>
LABEL_VOLUME_RATIO == <<"Volume", "Ratio">>

\* the words of one fragment of an error message of geometry.py
Words(f) ==
    CASE f = "Watertight: " -> <<"Watertight", ": ">>
      [] f = "Components: " -> <<"Components", ": ">>
      [] f = "Volume: " -> <<"Volume", ": ">>
      [] f = "Similarity: " -> <<"Similarity", ": ">>
      [] f = "File not found: " -> <<"File", "not", "found", ": ">>
      [] f = "Generated file not found: " ->
             <<"Generated", "file", "not", "found", ": ">>
      [] f = "Reference file not found: " ->
             <<"Reference", "file", "not", "found", ": ">>
      [] OTHER -> <<f>>

\* str(error): the words of all fragments of the message
RECURSIVE Text(_)
Text(error) ==
    IF error = <<>> THEN <<>> ELSE Words(Head(error)) \o Text(Tail(error))

\* "\n".join(lines)
RECURSIVE Join(_)
Join(lines) ==
    IF lines = <<>> THEN <<>>
    ELSE IF Len(lines) = 1 THEN lines[1]
    ELSE lines[1] \o <<"n">> \o Join(Tail(lines))

\* the position of the first word w of text, 0 when there is none
Find(text, w) ==
    LET js == { j \in 1..Len(text) : text[j] = w }
    IN  IF js = {} THEN 0 ELSE CHOOSE j \in js : \A k \in js : j <= k

\* text.split("\n")
RECURSIVE Split(_)
Split(text) ==
    LET i == Find(text, "n")
    IN  IF i = 0 THEN <<text>>
        ELSE <<SubSeq(text, 1, i - 1)>> \o Split(SubSeq(text, i + 1, Len(text)))

\* sub in text
Contains(text, sub) == \E i \in 1..Len(text) : StartsWith(text, i, sub)

\* lines 82-85
status(val) ==
    IF val = None THEN "N/A" ELSE IF Val(val) THEN "PASS" ELSE "FAIL"

\* f"{x:.4f}" of a number of the model
Fmt4(x) == ToString(x)

\* f"{q:.4f}" of a quotient kept as a pair
FmtRatio(q) == <<ToString(q[1]), "/", ToString(q[2])>>

CheckLine(label, val) == <<"- ">> \o label \o <<": ", status(val)>>

\* lines 76-110
format_check_results(checks) ==
    LET head ==
            << <<"## ">> \o HEADER_CHECK_RESULTS \o <<"n">>,
               CheckLine(LABEL_WATERTIGHT, checks.is_watertight),
               CheckLine(LABEL_SINGLE_COMPONENT, checks.is_single_component),
               CheckLine(LABEL_BBOX, checks.bbox_accurate),
               CheckLine(LABEL_VOLUME, checks.volume_passed),
               CheckLine(LABEL_CHAMFER, checks.chamfer_passed),
               CheckLine(LABEL_HAUSDORFF, checks.hausdorff_passed),
               <<"n", "## ">> \o HEADER_METRICS \o <<"n">> >>
        chamfer ==
            IF checks.chamfer_distance # None
                THEN << <<"- ">> \o LABEL_CHAMFER_METRIC \o
                        <<": ", Fmt4(Val(checks.chamfer_distance)), "mm">> >>
                ELSE <<>>
        hausdorff ==
            IF checks.hausdorff_95p # None
                THEN << <<"- ">> \o LABEL_HAUSDORFF_METRIC \o
                        <<": ", Fmt4(Val(checks.hausdorff_95p)), "mm">> >>
                ELSE <<>>
        fitness ==
            IF checks.icp_fitness # None
                THEN << <<"- ">> \o LABEL_ICP_FITNESS \o
                        <<": ", Fmt4(Val(checks.icp_fitness))>> >>
                ELSE <<>>
        ratio ==
            IF checks.volume_ratio # None
                THEN << <<"- ">> \o LABEL_VOLUME_RATIO \o <<": ">> \o
                        FmtRatio(Val(checks.volume_ratio)) >>
                ELSE <<>>
        errors ==
            IF checks.errors # <<>>
                THEN << <<"n", "## ">> \o HEADER_ERRORS \o <<"n">> >> \o
                     [ i \in 1..Len(checks.errors) |->
                         <<"- ">> \o Text(checks.errors[i]) ]
                ELSE <<>>
    IN  Join(head \o chamfer \o hausdorff \o fitness \o ratio \o errors)

\* analyze_results.py:129-140
ParseDefaults ==
    [ code_executed |-> TRUE, stl_created |-> TRUE, watertight |-> None,
      single_component |-> None, bbox_accurate |-> None,
      volume_passed |-> None, chamfer_passed |-> None,
      hausdorff_passed |-> None, chamfer_distance |-> None,
      hausdorff_95p |-> None ]

\* a slip: the no-STL exit is counted as code that did not run
EarlyExit_no_stl_not_executed(explanation) ==
    IF \/ Contains(explanation, ERROR_EXEC_FAILED)
       \/ Contains(explanation, ERROR_TIMEOUT)
       \/ Contains(explanation, ERROR_NO_CODE)
       \/ Contains(explanation, ERROR_NO_STL)
        THEN Some([ ParseDefaults EXCEPT
                      !.code_executed = FALSE, !.stl_created = FALSE ])
    ELSE None

\* analyze_results.py:143-157: the result returned early, None when the
\* explanation names none of the four early failures
EarlyExit(explanation) ==
    IF Contains(explanation, ERROR_EXEC_FAILED)
        THEN Some([ ParseDefaults EXCEPT
                      !.code_executed = FALSE, !.stl_created = FALSE ])
    ELSE IF Contains(explanation, ERROR_TIMEOUT)
        THEN Some([ ParseDefaults EXCEPT
                      !.code_executed = FALSE, !.stl_created = FALSE ])
    ELSE IF Contains(explanation, ERROR_NO_CODE)
        THEN Some([ ParseDefaults EXCEPT
                      !.code_executed = FALSE, !.stl_created = FALSE ])
    ELSE IF Contains(explanation, ERROR_NO_STL)
        THEN Some([ ParseDefaults EXCEPT !.stl_created = FALSE ])
    ELSE None

\* analyze_results.py:160-167
check_map ==
    (LABEL_WATERTIGHT :> "watertight") @@
    (LABEL_SINGLE_COMPONENT :> "single_component") @@
    (LABEL_BBOX :> "bbox_accurate") @@
    (LABEL_VOLUME :> "volume_passed") @@
    (LABEL_CHAMFER :> "chamfer_passed") @@
    (LABEL_HAUSDORFF :> "hausdorff_passed")

\* a slip: every value that is not PASS is read as a failure
ParseLine_any_value(res, line) ==
    IF Len(line) >= 1 /\ line[1] = "- " /\ Find(line, ": ") # 0
        THEN LET rest  == Tail(line)
                 i     == Find(rest, ": ")
                 name  == SubSeq(rest, 1, i - 1)
                 value == SubSeq(rest, i + 1, Len(rest))
             IN  IF name \in DOMAIN check_map
                     THEN [ res EXCEPT
                              ![check_map[name]] = Some(value = <<"PASS">>) ]
                     ELSE res
    ELSE res

\* analyze_results.py:170-176, the body of the loop for one stripped line
ParseLine(res, line) ==
    IF Len(line) >= 1 /\ line[1] = "- " /\ Find(line, ": ") # 0
        THEN LET rest  == Tail(line)
                 i     == Find(rest, ": ")
                 name  == SubSeq(rest, 1, i - 1)
                 value == SubSeq(rest, i + 1, Len(rest))
             IN  IF /\ name \in DOMAIN check_map
                    /\ value \in { <<"PASS">>, <<"FAIL">> }
                     THEN [ res EXCEPT
                              ![check_map[name]] = Some(value = <<"PASS">>) ]
                     ELSE res
    ELSE res

\* analyze_results.py:168-176
RECURSIVE ParseLines(_, _)
ParseLines(res, lines) ==
    IF lines = <<>> THEN res
    ELSE ParseLines(ParseLine(res, strip(Head(lines))), Tail(lines))

\* the words [\d.]+ matches
NumberWords == { ToString(x) : x \in 0..(MaxDist + 1) }

\* float(word)
float(word) == CHOOSE x \in 0..(MaxDist + 1) : ToString(x) = word

\* re.search(rf"{label}: ([\d.]+) mm", explanation): group 1 of the first
\* match as a float, None when nothing matches
SearchMetric(label, explanation) ==
    LET n  == Len(label)
        js == { j \in 1..Len(explanation) :
                  /\ StartsWith(explanation, j, label \o <<": ">>)
                  /\ j + n + 2 <= Len(explanation)
                  /\ explanation[j + n + 1] \in NumberWords
                  /\ explanation[j + n + 2] = "mm" }
    IN  IF js = {} THEN None
        ELSE LET j == CHOOSE k \in js : \A m \in js : k <= m
             IN  Some(float(explanation[j + n + 1]))

\* analyze_results.py:114-191
parse_sample_checks(explanation) ==
    LET early == EarlyExit(explanation)
    IN  IF early # None THEN Val(early)
        ELSE LET res == ParseLines(ParseDefaults, Split(explanation))
                 cd  == SearchMetric(LABEL_CHAMFER_METRIC, explanation)
                 hd  == SearchMetric(LABEL_HAUSDORFF_METRIC, explanation)
             IN  [ res EXCEPT
                     !.chamfer_distance = IF cd # None THEN cd ELSE @,
                     !.hausdorff_95p = IF hd # None THEN hd ELSE @ ]

----------------------------------------------------------------------------
(* geometry_scorer's score (scorer.py:129-230).  Each await on the sandbox *)
(* is one action; the call of perform_geometry_checks runs through the     *)
(* stage actions above.                                                    *)

CORRECT == "C"
INCORRECT == "I"

\* the gates of score in the order of the code
GateOrder == <<"code", "exec", "output_stl", "read", "reference">>

\* score at its first line
ScorerStart ==
    [ pc |-> "extract", executions |-> 0, gates |-> <<>>, value |-> None,
      exit |-> "", tmp |-> "none", stderr |-> <<>>, explanation |-> None ]

\* what the sandbox's base64 writes to stderr when it fails, and str(e) of
\* the exception of base64.b64decode
BASE64_STDERR ==
    <<"base64", ": ", "output.stl", ": ", "No", "such", "file", "or",
      "directory">>
DECODE_ERROR == <<"Incorrect", "padding">>

\* the explanation of the Score returned at the exit named by exit, with
\* stderr what the executed code wrote to stderr; "F" is the code fence
Explanation(exit, stderr) ==
    CASE exit = "no_code" -> ERROR_NO_CODE
      [] exit = "timeout" ->
             ERROR_TIMEOUT \o <<"after", ToString(EXECUTION_TIMEOUT), "s">>
      [] exit = "exec_failed" ->
             ERROR_EXEC_FAILED \o <<":", "n", "F", "n">> \o stderr \o
                 <<"n", "F">>
      [] exit = "no_stl" -> ERROR_NO_STL
      [] exit = "read_failed" ->
             ERROR_READ_STL_FAILED \o <<": ">> \o BASE64_STDERR
      [] exit = "decode_failed" ->
             ERROR_DECODE_STL_FAILED \o <<": ">> \o DECODE_ERROR
      [] exit = "ref_not_found" ->
             ERROR_REF_STL_NOT_FOUND \o <<": ", ref.path>>

\* return Score(value=INCORRECT, ...) at the exit named by exit
ReturnIncorrect(sc, exit) ==
    [ sc EXCEPT !.pc = "done", !.value = Some(INCORRECT), !.exit = exit,
                !.explanation = Some(Explanation(exit, sc.stderr)) ]

Passed(sc, gate, next) ==
    [ sc EXCEPT !.pc = next, !.gates = Append(@, gate) ]

\* lines 134-141
ScoreExtract ==
    /\ scorer # None /\ Val(scorer).pc = "extract"
    /\ LET c == extract_code(Val(completion))
       IN  /\ code' = Some(c)
           /\ scorer' = Some(IF c = <<>>
                                 THEN ReturnIncorrect(Val(scorer), "no_code")
                                 ELSE Passed(Val(scorer), "code", "exec"))
    /\ UNCHANGED <<call, modules, direct, completion, peer, post>>

ExecOutcomes == {"success", "failed", "timeout"}

\* lines 144-161
ScoreExec ==
    /\ scorer # None /\ Val(scorer).pc = "exec"
    /\ \E outcome \in ExecOutcomes :
         LET sc == [ Val(scorer) EXCEPT !.executions = @ + 1 ]
         IN  scorer' = Some(
                 IF outcome = "timeout" THEN ReturnIncorrect(sc, "timeout")
                 ELSE IF outcome = "failed"
                     THEN ReturnIncorrect(sc, "exec_failed")
                 ELSE Passed(sc, "exec", "test_f"))
    /\ UNCHANGED <<call, modules, direct, completion, code, peer, post>>

\* lines 164-170
ScoreTestStl ==
    /\ scorer # None /\ Val(scorer).pc = "test_f"
    /\ \E success \in BOOLEAN :
         scorer' = Some(IF ~success
                            THEN ReturnIncorrect(Val(scorer), "no_stl")
                            ELSE Passed(Val(scorer), "output_stl", "read"))
    /\ UNCHANGED <<call, modules, direct, completion, code, peer, post>>

ReadOutcomes == {"ok", "base64_failed", "decode_raised"}

\* lines 173-218: read and decode output.stl, write the temporary file,
\* test the reference path and enter perform_geometry_checks
ScoreReadStl ==
    /\ scorer # None /\ Val(scorer).pc = "read"
    /\ \E outcome \in ReadOutcomes :
         IF outcome = "base64_failed"
             THEN /\ scorer' = Some(ReturnIncorrect(Val(scorer), "read_failed"))
                  /\ UNCHANGED pc
         ELSE IF outcome = "decode_raised"
             THEN /\ scorer' = Some(ReturnIncorrect(Val(scorer), "decode_failed"))
                  /\ UNCHANGED pc
         ELSE LET sc == [ Passed(Val(scorer), "read", "reference")
                            EXCEPT !.tmp = "written" ]
              IN  IF ~ref.exists
                      THEN /\ scorer' = Some(ReturnIncorrect(sc, "ref_not_found"))
                           /\ UNCHANGED pc
                      ELSE /\ scorer' = Some(Passed(sc, "reference", "checks"))
                           /\ pc' = "gen_gate"
    /\ UNCHANGED <<gen, ref, cfg, result, vol_ret, sim_ret, sim_env, stages,
                   verdict, modules, direct, completion, code, peer, post>>

\* lines 221-230
ScoreFinish ==
    /\ scorer # None /\ Val(scorer).pc = "checks"
    /\ pc = "returned"
    /\ LET passed == all_passed(result)
       IN  /\ verdict' = Some(passed)
           /\ scorer' = Some([ Val(scorer) EXCEPT
                  !.pc = "done",
                  !.tmp = "unlinked",
                  !.value = Some(IF passed THEN CORRECT ELSE INCORRECT),
                  !.exit = "checked",
                  !.explanation = Some(format_check_results(result)) ])
    /\ UNCHANGED <<gen, ref, cfg, pc, result, vol_ret, sim_ret, sim_env,
                   stages, modules, direct, completion, code, peer, post>>

\* an exception of perform_geometry_checks passes through score, which has
\* no handler around lines 210-218
ScoreRaise ==
    /\ scorer # None /\ Val(scorer).pc = "checks"
    /\ pc = "raised"
    /\ scorer' = Some([ Val(scorer) EXCEPT !.pc = "raised" ])
    /\ UNCHANGED <<call, modules, direct, completion, code, peer, post>>

\* the files a sandbox run can leave in output.stl, as the backends see
\* the temporary copy: a sound mesh, one of another volume, an open one,
\* and bytes that are no mesh
ScorerGenFiles ==
    { SoundMesh("generated.stl"),
      [ SoundMesh("generated.stl") EXCEPT !.tm_volume = MaxVol ],
      [ SoundMesh("generated.stl") EXCEPT !.o3d_watertight = FALSE ],
      [ SoundMesh("generated.stl") EXCEPT
          !.tri = "none", !.o3d_watertight = FALSE, !.tm_loadable = FALSE,
          !.tm_watertight = FALSE, !.tm_volume = 0 ] }

ScorerCompletions ==
    { <<>>, <<"a">>, <<"F", "p", "n", "a", "n", "F">>, <<"F", "n", "F">> }

InitScorer ==
    /\ gen \in ScorerGenFiles
    /\ ref \in { SoundMesh("reference.stl"), Missing("reference.stl") }
    /\ cfg \in { c \in Configs :
                   /\ c.expected_components = 1
                   /\ c.volume_threshold_percent = DEFAULT_VOLUME_THRESHOLD_PERCENT }
    /\ pc = "idle"
    /\ result = GeometryCheckResult(<<>>)
    /\ vol_ret = None
    /\ sim_ret = None
    /\ sim_env = None
    /\ stages = <<>>
    /\ verdict = None
    /\ modules = Unloaded
    /\ direct = None
    /\ completion \in { Some(c) : c \in ScorerCompletions }
    /\ code = None
    /\ scorer = Some(ScorerStart)
    /\ peer = None
    /\ parsed = None
    /\ heap = None

NextScorer ==
    \/ ScoreExtract
    \/ ScoreExec
    \/ ScoreTestStl
    \/ ScoreReadStl
    \/ GenGate
    \/ WatertightStage
    \/ ComponentStage
    \/ RefGate
    \/ VolumeStage
    \/ SimilarityStage
    \/ ScoreFinish
    \/ ScoreRaise

SpecScorer == InitScorer /\ [][NextScorer]_vars

----------------------------------------------------------------------------
(* Two perform_geometry_checks calls on independent inputs running         *)
(* concurrently.  The first call is the one of the variables above; the    *)
(* second is the record peer, with the same fields and one more, at, that  *)
(* tells whether its current stage function has yet to run its _ensure_    *)
(* lines or is past them and about to use the libraries.                   *)

\* a call at the first line of perform_geometry_checks
CallStart(g, r, c) ==
    [ gen |-> g, ref |-> r, cfg |-> c, pc |-> "gen_gate", at |-> "ensure",
      result |-> GeometryCheckResult(<<>>), vol_ret |-> None,
      sim_ret |-> None, sim_env |-> None, stages |-> <<>> ]

\* lines 361-418 as a function of the call's own state: the state after
\* the next stage, with env what the backends compute in check_similarity
StageStep(c, env) ==
    IF c.pc = "gen_gate" THEN
        IF ~c.gen.exists
            THEN [ c EXCEPT
                     !.result.errors =
                         Append(@, <<"Generated file not found: ", c.gen.path>>),
                     !.pc = "returned" ]
            ELSE [ c EXCEPT !.pc = "watertight" ]
    ELSE IF c.pc = "watertight" THEN
        LET r == check_watertight(c.gen)
        IN  [ c EXCEPT
                !.result.is_watertight = Some(r[1]),
                !.result.errors =
                    IF TruthyStr(r[2]) THEN Append1(@, "Watertight: ", r[2])
                    ELSE @,
                !.stages = Append(@, "check_watertight"),
                !.pc = "components" ]
    ELSE IF c.pc = "components" THEN
        LET r == check_single_component(c.gen, c.cfg.expected_components)
        IN  [ c EXCEPT
                !.result.is_single_component = Some(r[1]),
                !.result.errors =
                    IF TruthyStr(r[2]) THEN Append1(@, "Components: ", r[2])
                    ELSE @,
                !.stages = Append(@, "check_single_component"),
                !.pc = "ref_gate" ]
    ELSE IF c.pc = "ref_gate" THEN
        IF ~c.ref.exists
            THEN [ c EXCEPT
                     !.result.errors =
                         Append(@, <<"Reference file not found: ", c.ref.path>>),
                     !.pc = "returned" ]
            ELSE [ c EXCEPT !.pc = "volume" ]
    ELSE IF c.pc = "volume" THEN
        LET v == check_volume(c.gen, c.ref, c.cfg.volume_threshold_percent)
            called == [ c EXCEPT !.vol_ret = Some(v),
                                 !.stages = Append(@, "check_volume") ]
        IN  IF v.raised THEN [ called EXCEPT !.pc = "raised" ]
            ELSE [ called EXCEPT
                     !.pc = "similarity",
                     !.result.volume_passed = Some(v.ret[1]),
                     !.result.reference_volume = v.ret[2],
                     !.result.generated_volume = v.ret[3],
                     !.result.volume_ratio =
                         IF TruthyNum(v.ret[2]) /\ TruthyNum(v.ret[3])
                             THEN Some(VolumeRatio(Val(v.ret[3]), Val(v.ret[2])))
                             ELSE @,
                     !.result.errors =
                         IF TruthyStr(v.ret[4])
                             THEN Append1(@, "Volume: ", v.ret[4])
                             ELSE @ ]
    ELSE IF c.pc = "similarity" THEN
        LET s == check_similarity(c.gen, c.ref, c.cfg.bbox_tolerance, env)
            called == [ c EXCEPT !.sim_ret = Some(s), !.sim_env = Some(env),
                                 !.stages = Append(@, "check_similarity") ]
        IN  IF s.raised THEN [ called EXCEPT !.pc = "raised" ]
            ELSE [ called EXCEPT
                     !.pc = "returned",
                     !.result = SimilarityUpdate(@, s, c.cfg) ]
    ELSE c

Ended(c) == c.pc \in {"returned", "raised"}

\* the call run on its own from state c to its end
RECURSIVE RunAlone(_, _)
RunAlone(c, env) ==
    IF Ended(c) THEN c ELSE RunAlone(StageStep(c, env), env)

\* the libraries the stage function at pc binds in its first lines
Needs(at_pc) ==
    IF at_pc \in {"watertight", "components"} THEN {"open3d"}
    ELSE IF at_pc = "volume" THEN {"trimesh"}
    ELSE IF at_pc = "similarity" THEN {"open3d", "trimesh"}
    ELSE {}

EnsureFor(at_pc, m) ==
    LET m1 == IF "open3d" \in Needs(at_pc) THEN ensure_open3d(m) ELSE m
    IN  IF "trimesh" \in Needs(at_pc) THEN ensure_trimesh(m1) ELSE m1

Loaded(libs, m) == \A lib \in libs : m[lib]

\* the outcomes of check_similarity the concurrent calls draw from
ConcEnvs ==
    { SimEnv("no_points", "ok", FALSE, 0, 0, 0, 0, <<1, 1, 1>>, <<1, 1, 1>>) }
        \cup MetricEnvs({0, MaxDist}, {<<1, 1, 1>>}, {<<1, 1, 1>>})

\* the second call runs the _ensure_ lines of its next stage function
PeerEnsure ==
    /\ peer # None /\ ~Ended(Val(peer))
    /\ Needs(Val(peer).pc) # {} /\ Val(peer).at = "ensure"
    /\ modules' = EnsureFor(Val(peer).pc, modules)
    /\ peer' = Some([ Val(peer) EXCEPT !.at = "use" ])
    /\ UNCHANGED <<call, direct, completion, code, scorer, post>>

\* the second call runs the rest of its next stage; a library global that
\* is None at this point makes the attribute access raise
PeerStage ==
    /\ peer # None /\ ~Ended(Val(peer))
    /\ Needs(Val(peer).pc) = {} \/ Val(peer).at = "use"
    /\ \E env \in ConcEnvs :
         peer' = Some(IF Loaded(Needs(Val(peer).pc), modules)
                          THEN [ StageStep(Val(peer), env) EXCEPT !.at = "ensure" ]
                          ELSE [ Val(peer) EXCEPT !.pc = "raised" ])
    /\ UNCHANGED <<call, modules, direct, completion, code, scorer, post>>

SimilarityStageConc == SimilarityStageOver(ConcEnvs)

\* the files of the concurrent calls: a sound mesh, one of another volume,
\* bytes that are no mesh, and no file
ConcFiles(p) ==
    { SoundMesh(p),
      [ SoundMesh(p) EXCEPT !.tm_volume = MaxVol ],
      [ SoundMesh(p) EXCEPT
          !.tri = "none", !.o3d_watertight = FALSE, !.tm_loadable = FALSE,
          !.tm_watertight = FALSE, !.tm_volume = 0 ],
      Missing(p) }

ConcConfigs ==
    { c \in Configs :
        /\ c.expected_components = 1
        /\ c.volume_threshold_percent = DEFAULT_VOLUME_THRESHOLD_PERCENT }

InitConc ==
    /\ gen \in ConcFiles("generated.stl")
    /\ ref \in { SoundMesh("reference.stl"), Missing("reference.stl") }
    /\ cfg \in ConcConfigs
    /\ pc = "gen_gate"
    /\ result = GeometryCheckResult(<<>>)
    /\ vol_ret = None
    /\ sim_ret = None
    /\ sim_env = None
    /\ stages = <<>>
    /\ verdict = None
    /\ modules = Unloaded
    /\ direct = None
    /\ completion = None
    /\ code = None
    /\ scorer = None
    /\ peer \in { Some(CallStart(g, r, c)) :
                    g \in ConcFiles("peer_generated.stl"),
                    r \in { SoundMesh("peer_reference.stl"),
                            Missing("peer_reference.stl") },
                    c \in ConcConfigs }
    /\ parsed = None
    /\ heap = None

NextConc ==
    \/ GenGate
    \/ WatertightStage
    \/ ComponentStage
    \/ RefGate
    \/ VolumeStage
    \/ SimilarityStageConc
    \/ PeerEnsure
    \/ PeerStage

SpecConc == InitConc /\ [][NextConc]_vars

----------------------------------------------------------------------------
(* Properties of the similarity stage *)

SimilarityReturned == sim_ret # None /\ ~Val(sim_ret).raised

SimTuple == Val(sim_ret).ret

\* the call got as far as the registration preprocessing
ReachedPreprocessing ==
    /\ sim_ret # None
    /\ gen.exists /\ ref.exists /\ has_triangles(gen) /\ has_triangles(ref)
    /\ Val(sim_env).gen_points >= min_points
    /\ Val(sim_env).ref_points >= min_points

\* the result the call would have recorded had the backend reported the
\* 99th percentile h99 and the ICP fitness f, all else equal
WithOtherH99AndFitness(h99, f) ==
    SimilarityUpdate(result,
        check_similarity(gen, ref, cfg.bbox_tolerance,
            [ Val(sim_env) EXCEPT !.h99 = h99, !.fitness = f ]),
        cfg)

\* C11: when the similarity stage produces distance metrics, chamfer_passed
\* is chamfer_distance <= chamfer_threshold and hausdorff_passed is
\* hausdorff_95p <= hausdorff_threshold, boundaries included, with the
\* caller's thresholds; the 99th percentile and the ICP fitness influence
\* no boolean and not the verdict.
C11_ThresholdsInclusive ==
    (Returned /\ SimilarityReturned /\ SimTuple[1] # None) =>
        /\ result.chamfer_passed
               = Some(Val(result.chamfer_distance) <= cfg.chamfer_threshold)
        /\ result.hausdorff_passed
               = Some(Val(result.hausdorff_95p) <= cfg.hausdorff_threshold)
        /\ \A h99 \in 0..(MaxDist + 1), f \in Fitnesses :
              LET r2 == WithOtherH99AndFitness(h99, f)
              IN  /\ Checks(r2) = Checks(result)
                  /\ all_passed(r2) = all_passed(result)
        /\ verdict # None => Val(verdict) = all_passed(result)

\* both metrics sit on their thresholds and pass; the 99th percentile is
\* above the Hausdorff threshold, the ICP fitness is 0, the verdict is true
C11_Witness ==
    /\ Returned /\ verdict = Some(TRUE)
    /\ cfg.chamfer_threshold = MaxDist /\ cfg.hausdorff_threshold = 1
    /\ result.chamfer_distance = Some(MaxDist)
    /\ result.hausdorff_95p = Some(1)
    /\ result.hausdorff_99p = Some(MaxDist)
    /\ result.icp_fitness = Some(0)
    /\ result.chamfer_passed = Some(TRUE)
    /\ result.hausdorff_passed = Some(TRUE)

\* the number of times x occurs in seq
Count(x, seq) == Cardinality({ i \in 1..Len(seq) : seq[i] = x })

\* C12: when registration preprocessing fails for either point cloud,
\* check_similarity returns a descriptive error with no Chamfer distance, no
\* Hausdorff percentile, no ICP fitness and no bounding-box result, and
\* invokes neither RANSAC nor ICP; RANSAC and ICP are each invoked at most
\* once per verification call.
C12_PreprocessingFailureStopsRegistration ==
    /\ (ReachedPreprocessing
          /\ (Val(sim_env).pre_gen # "ok" \/ Val(sim_env).pre_ref # "ok")) =>
          /\ ~Val(sim_ret).raised
          /\ SimTuple = <<None, None, None, None, None,
                          Some(<<"Preprocessing for registration failed">>)>>
          /\ Val(sim_ret).calls = <<>>
          /\ BooleansAbsent(result,
                 { "chamfer_distance", "hausdorff_95p", "hausdorff_99p",
                   "icp_fitness", "bbox_accurate", "chamfer_passed",
                   "hausdorff_passed" })
          /\ HasError(<<"Similarity: ",
                        "Preprocessing for registration failed">>)
    /\ sim_ret # None =>
          /\ Count("ransac", Val(sim_ret).calls) <= 1
          /\ Count("icp", Val(sim_ret).calls) <= 1
    /\ Count("check_similarity", stages) <= 1

\* the generated cloud downsamples well but has no feature descriptors
C12_Witness ==
    /\ Returned /\ ReachedPreprocessing
    /\ Val(sim_env).pre_gen = "no_features" /\ Val(sim_env).pre_ref = "ok"
    /\ Val(sim_ret).calls = <<>>
    /\ result.icp_fitness = None

\* the extents d in ascending order
Ascending(d) ==
    CHOOSE a \in { Permuted(d, p) : p \in Perm3 } :
        a[1] <= a[2] /\ a[2] <= a[3]

\* C13: bbox_accurate is true exactly when the ascending extents of the
\* two meshes differ pairwise by at most the bbox tolerance (boundary
\* included), so it is unchanged by any permutation of the axes of either
\* mesh.
C13_BboxSortedExtents ==
    (SimilarityReturned /\ SimTuple[5] # None) =>
        LET env == Val(sim_env)
            g == Ascending(env.gen_dims)
            r == Ascending(env.ref_dims)
        IN  /\ result.bbox_accurate = SimTuple[5]
            /\ Val(SimTuple[5])
                   = (\A i \in 1..3 : Abs(g[i] - r[i]) <= cfg.bbox_tolerance)
            /\ \A p \in Perm3, q \in Perm3 :
                   check_similarity(gen, ref, cfg.bbox_tolerance,
                       [ env EXCEPT !.gen_dims = Permuted(env.gen_dims, p),
                                    !.ref_dims = Permuted(env.ref_dims, q) ]
                     ).ret[5] = SimTuple[5]

\* the same box with its axes in another order is accurate at tolerance 0
C13_Witness ==
    /\ Returned /\ cfg.bbox_tolerance = 0
    /\ Val(sim_env).gen_dims = <<MaxDist + 1, 1, MaxDist>>
    /\ Val(sim_env).ref_dims = <<1, MaxDist, MaxDist + 1>>
    /\ result.bbox_accurate = Some(TRUE)

----------------------------------------------------------------------------
(* Properties of the stage functions called on their own *)

DirectReturned(fn) ==
    direct # None /\ Val(direct).fn = fn /\ ~Val(direct).raised

\* C15: a stage function called with a path that does not exist returns
\* its failure value with a 'not found' message: (False, message) from
\* check_watertight and check_single_component, (False, None, None,
\* message) from check_volume, all metrics None with the message from
\* check_similarity; check_volume and check_similarity test the generated
\* path before the reference path.
C15_MissingPathReturnsNotFound ==
    direct # None =>
        LET d == Val(direct)
            gen_missing == Some(<<"Generated file not found: ", gen.path>>)
            ref_missing == Some(<<"Reference file not found: ", ref.path>>)
        IN  /\ (d.fn \in {"check_watertight", "check_single_component"}
                  /\ ~gen.exists) =>
                  /\ ~d.raised
                  /\ d.ret = <<FALSE, Some(<<"File not found: ", gen.path>>)>>
            /\ (d.fn = "check_volume" /\ ~gen.exists) =>
                  ~d.raised /\ d.ret = <<FALSE, None, None, gen_missing>>
            /\ (d.fn = "check_volume" /\ gen.exists /\ ~ref.exists) =>
                  ~d.raised /\ d.ret = <<FALSE, None, None, ref_missing>>
            /\ (d.fn = "check_similarity" /\ ~gen.exists) =>
                  /\ ~d.raised
                  /\ d.ret = <<None, None, None, None, None, gen_missing>>
            /\ (d.fn = "check_similarity" /\ gen.exists /\ ~ref.exists) =>
                  /\ ~d.raised
                  /\ d.ret = <<None, None, None, None, None, ref_missing>>

\* both paths are missing and check_volume names the generated file
C15_Witness ==
    /\ DirectReturned("check_volume")
    /\ ~gen.exists /\ ~ref.exists
    /\ Val(direct).ret[4] = Some(<<"Generated file not found: ", gen.path>>)

----------------------------------------------------------------------------
(* Properties of extract_code *)

\* the positions of the fences of c, in order
Fences(c) ==
    LET F == { i \in 1..Len(c) : c[i] = "F" }
    IN  SortSeq(CHOOSE q \in [1..Cardinality(F) -> F] :
                    \A i, j \in 1..Cardinality(F) : i # j => q[i] # q[j],
                LAMBDA a, b : a < b)

\* the fenced blocks of c: the first fence opens a block, the second closes
\* it, the third opens the next; each as <<opening fence, closing fence>>
Blocks(c) ==
    LET f == Fences(c)
    IN  [ k \in 1..(Len(f) \div 2) |-> <<f[2 * k - 1], f[2 * k]>> ]

\* a block whose opening fence carries the info string python
IsPythonBlock(c, b) ==
    b[1] + 2 < b[2] /\ c[b[1] + 1] = "p" /\ c[b[1] + 2] = "n"

\* a block whose opening fence carries no info string
IsGenericBlock(c, b) == b[1] + 1 < b[2] /\ c[b[1] + 1] = "n"

\* the text of a block from the end of the opening line to the closing fence
BlockContent(c, b) ==
    IF IsPythonBlock(c, b) THEN SubSeq(c, b[1] + 3, b[2] - 1)
    ELSE SubSeq(c, b[1] + 2, b[2] - 1)

PythonBlocks(c) ==
    { k \in 1..Len(Blocks(c)) : IsPythonBlock(c, Blocks(c)[k]) }

GenericBlocks(c) ==
    { k \in 1..Len(Blocks(c)) : IsGenericBlock(c, Blocks(c)[k]) }

\* the first of the blocks ks, 0 when there is none
FirstBlock(ks) ==
    IF ks = {} THEN 0 ELSE CHOOSE k \in ks : \A m \in ks : k <= m

\* C18: extract_code returns the stripped content of the first python
\* fenced block when the completion has one, even after an earlier generic
\* block; otherwise the stripped content of the first generic fenced block;
\* otherwise the whole completion stripped; the empty completion gives the
\* empty string.
C18_FirstPythonBlockElseGenericElseAll ==
    code # None =>
        LET c == Val(completion)
            py == FirstBlock(PythonBlocks(c))
            ge == FirstBlock(GenericBlocks(c))
        IN  /\ Val(code) =
                  IF py # 0 THEN strip(BlockContent(c, Blocks(c)[py]))
                  ELSE IF ge # 0 THEN strip(BlockContent(c, Blocks(c)[ge]))
                  ELSE strip(c)
            /\ c = <<>> => Val(code) = <<>>

\* what the two patterns do find: a python match is a fence followed by
\* python and a newline, a generic match is any fence followed by a
\* newline, the closing fence of an earlier block included, and the match
\* runs to the next fence
C18_FirstMatchOfFirstPattern ==
    code # None =>
        LET c == Val(completion)
            Opens(prefix) ==
                { i \in 1..Len(c) :
                    /\ StartsWith(c, i, prefix)
                    /\ NextFence(c, i + Len(prefix)) # 0 }
            First(S) == CHOOSE i \in S : \A j \in S : i <= j
            Content(prefix) ==
                LET i == First(Opens(prefix))
                IN  SubSeq(c, i + Len(prefix),
                           NextFence(c, i + Len(prefix)) - 1)
        IN  Val(code) =
                IF Opens(PYTHON_BLOCK) # {} THEN strip(Content(PYTHON_BLOCK))
                ELSE IF Opens(GENERIC_BLOCK) # {}
                    THEN strip(Content(GENERIC_BLOCK))
                ELSE strip(c)

----------------------------------------------------------------------------
(* Properties of the scorer *)

\* score has ended, with a Score or with an exception
ScoreEnded == scorer # None /\ Val(scorer).pc \in {"done", "raised"}

ScoreReturned == scorer # None /\ Val(scorer).pc = "done"

\* every gate of score was passed and the checks all passed
AllGatesPassed ==
    /\ Val(scorer).gates = GateOrder
    /\ Val(code) # <<>>
    /\ ref.exists
    /\ pc = "returned"
    /\ all_passed(result)

\* the gates are taken in order, the code is executed at most once, and the
\* geometry checks run only after every gate
GatesInOrder ==
    scorer # None =>
        /\ IsPrefix(Val(scorer).gates, GateOrder)
        /\ Val(scorer).executions <= 1
        /\ Val(scorer).executions = Count("exec", Val(scorer).gates)
              \/ Val(scorer).exit \in {"timeout", "exec_failed"}
        /\ pc # "idle" => Val(scorer).gates = GateOrder

\* C17: score returns CORRECT if and only if the extracted code is
\* non-empty, its execution succeeds, output.stl exists and is read and
\* decoded, the reference STL exists and all_passed is true, and every other
\* path returns INCORRECT; the gates are taken in that order, the code is
\* executed at most once and the geometry checks never run unless every
\* earlier gate passed.
C17_CorrectIffAllGates ==
    /\ ScoreEnded =>
          Val(scorer).value
              = IF AllGatesPassed THEN Some(CORRECT) ELSE Some(INCORRECT)
    /\ GatesInOrder

\* the part of C17 that the code keeps: every Score that is returned is
\* CORRECT exactly when all gates passed, and the gates are in order
C17_ReturnedScoreIffAllGates ==
    /\ ScoreReturned =>
          Val(scorer).value
              = IF AllGatesPassed THEN Some(CORRECT) ELSE Some(INCORRECT)
    /\ GatesInOrder

----------------------------------------------------------------------------
(* Properties of concurrent calls *)

\* the first call as a record of its variables
MainCall ==
    [ gen |-> gen, ref |-> ref, cfg |-> cfg, pc |-> pc, at |-> "ensure",
      result |-> result, vol_ret |-> vol_ret, sim_ret |-> sim_ret,
      sim_env |-> sim_env, stages |-> stages ]

\* what the backends computed for the call c, if it got that far
EnvOf(c) ==
    IF c.sim_env # None THEN Val(c.sim_env) ELSE CHOOSE env \in ConcEnvs : TRUE

\* the call c ended as it ends when it runs alone on the same inputs
EndsAsAlone(c) ==
    Ended(c) => c = RunAlone(CallStart(c.gen, c.ref, c.cfg), EnvOf(c))

\* C19: in every interleaving of two calls on independent inputs each call
\* ends with the result it has when run alone, and the shared module
\* globals only ever change from unset to loaded.
C19_ConcurrentCallsIndependent ==
    /\ [](EndsAsAlone(MainCall))
    /\ [](peer # None => EndsAsAlone(Val(peer)))
    /\ [][ \A lib \in DOMAIN modules : modules[lib] => modules'[lib] ]_vars

\* both calls have returned, with different results, after sharing the
\* loaded libraries
C19_Witness ==
    /\ peer # None
    /\ pc = "returned" /\ Val(peer).pc = "returned"
    /\ result.volume_passed = Some(TRUE)
    /\ Val(peer).result.volume_passed = Some(FALSE)
    /\ modules.open3d /\ modules.trimesh

----------------------------------------------------------------------------
(* Properties of the volume ratio, of self-comparison and of the error list *)

\* C14: volume_ratio is generated_volume / reference_volume exactly when
\* the volume stage returned both volumes and both are nonzero, whether or
\* not the volume check passed; otherwise it stays None.
C14_VolumeRatioWhenBothNonzero ==
    /\ VolumeReturned =>
          result.volume_ratio =
              IF /\ VolTuple[2] # None /\ VolTuple[3] # None
                 /\ Val(VolTuple[2]) # 0 /\ Val(VolTuple[3]) # 0
                  THEN Some(<<Val(VolTuple[3]), Val(VolTuple[2])>>)
                  ELSE None
    /\ ~VolumeReturned => result.volume_ratio = None

\* the ratio 2/1 is recorded although the volume check failed
C14_Witness ==
    /\ Returned /\ VolumeReturned
    /\ result.volume_passed = Some(FALSE)
    /\ result.volume_ratio = Some(<<MaxVol, 1>>)

\* C16: a watertight mesh file compared against itself passes the volume
\* check for every threshold >= 0, with equal volumes and no error, and the
\* recorded volume ratio is 1 when the volume is nonzero.
C16_SelfComparisonPasses ==
    (VolumeReturned /\ gen = ref /\ gen.tm_watertight) =>
        /\ VolTuple[1] = TRUE
        /\ VolTuple[2] = VolTuple[3]
        /\ VolTuple[4] = None
        /\ result.volume_passed = Some(TRUE)
        /\ gen.tm_volume # 0 =>
              /\ result.volume_ratio # None
              /\ Val(result.volume_ratio)[1] = Val(result.volume_ratio)[2]

C16_Witness ==
    /\ Returned /\ gen = ref /\ gen.tm_watertight
    /\ gen.tm_volume = MaxVol
    /\ cfg.volume_threshold_percent = 0
    /\ result.volume_ratio = Some(<<MaxVol, MaxVol>>)

\* the stage each message of an error list comes from
ErrorKinds(errors) == [ i \in 1..Len(errors) |-> errors[i][1] ]

\* the order-preserving selections from a pair of messages
SubSeqs(s) == { <<>>, <<s[1]>>, <<s[2]>>, s }

\* the error lists in stage order
StageOrdered ==
    { <<"Generated file not found: ">> }
      \cup { a \o b :
               a \in SubSeqs(<<"Watertight: ", "Components: ">>),
               b \in { <<"Reference file not found: ">> }
                       \cup SubSeqs(<<"Volume: ", "Similarity: ">>) }

\* C20: the error list holds its messages in stage order, each stage adds
\* at most one message, and no message is ever removed or reordered.
C20_ErrorsInStageOrder ==
    /\ [](ErrorKinds(result.errors) \in StageOrdered)
    /\ [](Returned =>
            /\ ~gen.exists =>
                 result.errors = << <<"Generated file not found: ", gen.path>> >>
            /\ (gen.exists /\ ~ref.exists) =>
                 result.errors[Len(result.errors)]
                     = <<"Reference file not found: ", ref.path>>)
    /\ [][ /\ IsPrefix(result.errors, result.errors')
           /\ Len(result.errors') <= Len(result.errors) + 1 ]_vars

\* all four stages have reported, in order
C20_Witness ==
    /\ Returned
    /\ ErrorKinds(result.errors)
          = <<"Watertight: ", "Components: ", "Volume: ", "Similarity: ">>

----------------------------------------------------------------------------
(* Properties of the fields of a returned result *)

Present(r, fields) == \A f \in fields : r[f] # None

SomePresent(r, fields) == \E f \in fields : r[f] # None

\* the booleans and metrics each stage records
StageBooleans(prefix) ==
    IF prefix = "Watertight: " THEN {"is_watertight"}
    ELSE IF prefix = "Components: " THEN {"is_single_component"}
    ELSE IF prefix = "Volume: " THEN {"volume_passed"}
    ELSE {"bbox_accurate", "chamfer_passed", "hausdorff_passed"}

StageMetrics(prefix) ==
    IF prefix = "Volume: " THEN {"volume_ratio"}
    ELSE IF prefix = "Similarity: "
        THEN {"chamfer_distance", "hausdorff_95p", "hausdorff_99p",
              "icp_fitness"}
    ELSE {}

StagePrefixes == {"Watertight: ", "Components: ", "Volume: ", "Similarity: "}

\* C21: in a returned result all_passed implies an empty error list, and no
\* stage that appended an error message has also reported True or produced
\* a metric.
C21_NoErrorBesideTrueOrMetric ==
    Returned =>
        /\ all_passed(result) => result.errors = <<>>
        /\ \A prefix \in StagePrefixes :
              HasErrorFrom(prefix) =>
                  /\ \A f \in StageBooleans(prefix) : result[f] # Some(TRUE)
                  /\ ~SomePresent(result, StageMetrics(prefix))

\* C21 as the code has it: all_passed implies an empty error list and a
\* stage that appended an error message has reported no True and no
\* distance metric; the volume ratio and the ICP fitness can stand beside
\* an error message of their stage.
C21_NoErrorBesideTrue ==
    Returned =>
        /\ all_passed(result) => result.errors = <<>>
        /\ \A prefix \in StagePrefixes :
              HasErrorFrom(prefix) =>
                  /\ \A f \in StageBooleans(prefix) : result[f] # Some(TRUE)
                  /\ ~SomePresent(result,
                         StageMetrics(prefix) \ {"volume_ratio", "icp_fitness"})
        /\ (HasErrorFrom("Similarity: ") /\ result.icp_fitness # None) =>
              HasError(<<"Similarity: ", "Distance calculation failed">>)

\* the converse fails: no message at all in a result that fails on its
\* Chamfer distance alone
C21_Witness ==
    /\ Returned
    /\ result.errors = <<>>
    /\ ~all_passed(result)
    /\ result.chamfer_passed = Some(FALSE)
    /\ result.is_watertight = Some(TRUE)
    /\ result.volume_passed = Some(TRUE)

\* C22: in a returned result the populated fields follow the stage order:
\* a volume or similarity field is present only beside is_watertight and
\* is_single_component, and a similarity field only beside volume_passed.
C22_FieldsFollowStageOrder ==
    Returned =>
        /\ SomePresent(result,
               {"volume_passed", "reference_volume", "generated_volume",
                "chamfer_distance", "hausdorff_95p", "hausdorff_99p",
                "icp_fitness", "bbox_accurate", "chamfer_passed",
                "hausdorff_passed"}) =>
              Present(result, {"is_watertight", "is_single_component"})
        /\ SomePresent(result,
               {"chamfer_distance", "hausdorff_95p", "hausdorff_99p",
                "icp_fitness", "bbox_accurate", "chamfer_passed",
                "hausdorff_passed"}) =>
              result.volume_passed # None

\* similarity metrics beside a failed volume check and a failed topology
C22_Witness ==
    /\ Returned
    /\ result.chamfer_distance # None
    /\ result.volume_passed = Some(FALSE)
    /\ result.is_watertight = Some(FALSE)

\* C23: in a returned result chamfer_distance, hausdorff_95p, hausdorff_99p
\* and bbox_accurate are all present or all absent, chamfer_passed is
\* present exactly with chamfer_distance and hausdorff_passed exactly with
\* hausdorff_95p; icp_fitness is present with those metrics, and without
\* them only when the distance computation failed after alignment.
C23_SimilarityFieldsTogether ==
    Returned =>
        LET metrics == {"chamfer_distance", "hausdorff_95p", "hausdorff_99p",
                        "bbox_accurate"}
        IN  /\ Present(result, metrics) \/ ~SomePresent(result, metrics)
            /\ (result.chamfer_passed # None)
                   <=> (result.chamfer_distance # None)
            /\ (result.hausdorff_passed # None)
                   <=> (result.hausdorff_95p # None)
            /\ Present(result, metrics) => result.icp_fitness # None
            /\ (result.icp_fitness # None /\ ~Present(result, metrics)) =>
                   /\ Val(sim_env).dist_empty
                   /\ Val(sim_ret).calls = <<"ransac", "icp">>
                   /\ HasError(<<"Similarity: ",
                                 "Distance calculation failed">>)

\* the ICP fitness alone, after a failed distance computation
C23_Witness ==
    /\ Returned
    /\ result.icp_fitness # None
    /\ result.chamfer_distance = None
    /\ result.chamfer_passed = None
    /\ result.bbox_accurate = None

----------------------------------------------------------------------------
(* Properties of the scorer's temporary file *)

\* C27: every path of score that returns a Score after the generated STL
\* was written to a temporary file has deleted that file before it returns.
C27_NoTemporaryFileLeft ==
    ScoreReturned => Val(scorer).tmp # "written"

\* the part of C27 that the code keeps: a Score returned after the geometry
\* checks completed leaves no temporary file, whatever the verdict
C27_DeletedAfterChecks ==
    (ScoreReturned /\ Val(scorer).exit = "checked") =>
        Val(scorer).tmp = "unlinked"

----------------------------------------------------------------------------
(* Termination of one call of perform_geometry_checks.  The function has  *)
(* no loop and no retry: from every position a stage or a gate is enabled  *)
(* until the call ends, so a call that keeps running takes its next step.  *)

SpecFair == Spec /\ WF_vars(Next)

\* C30: a call of perform_geometry_checks with both files present
\* eventually returns a result; no stage runs more than once on the way.
C30_CallWithBothFilesReturns ==
    /\ (gen.exists /\ ref.exists) => <>(pc = "returned")
    /\ [](\A i, j \in 1..Len(stages) : stages[i] = stages[j] => i = j)

\* the part of C30 that the code keeps: every call ends, by returning or by
\* an exception leaving it, after at most one run of each stage
C30_EveryCallEnds ==
    /\ <>(pc \in {"returned", "raised"})
    /\ [](\A i, j \in 1..Len(stages) : stages[i] = stages[j] => i = j)
    /\ [][Len(stages') <= Len(stages) + 1]_vars

----------------------------------------------------------------------------
(* The objects inside the stage functions: the open3d meshes and point     *)
(* clouds and the trimesh meshes that check_watertight,                    *)
(* check_single_component and check_similarity bind to their locals, on    *)
(* the path where both meshes have triangles and registration runs.  An    *)
(* object is named by the local that first holds it; a rigid transform is  *)
(* a permutation of the three axes, and the pose of an object is the       *)
(* transform that takes the file's coordinates to the object's.            *)

ObjNames ==
    { "mesh", "gen_mesh", "ref_mesh", "gen_pcd", "ref_pcd", "gen_pcd_aligned",
      "gen_pcd_final", "gen_tm", "ref_tm" }

Identity == <<1, 2, 3>>

\* the matrix product p @ q: q acts first
Compose(p, q) == [ i \in 1..3 |-> p[q[i]] ]

\* open3d.io.read_triangle_mesh / trimesh.load: a new object holding the
\* file's triangles as they are in the file
Loaded_mesh(kind, file, normals) ==
    [ kind |-> kind, file |-> file, cleaned |-> FALSE, normals |-> normals,
      pose |-> Identity ]

\* binding a new object to a local
Bind(objs, name, o) == [ objs EXCEPT ![name] = Some(o) ]

\* lines 83-90: the five open3d calls change the mesh they are called on,
\* and the same object is returned
clean_mesh_in_place(objs, name) ==
    [ objs EXCEPT ![name] = Some([ Val(@) EXCEPT !.cleaned = TRUE ]) ]

\* mesh.compute_vertex_normals(), lines 253-256: in place
compute_vertex_normals(objs, name) ==
    [ objs EXCEPT ![name] = Some([ Val(@) EXCEPT !.normals = TRUE ]) ]

\* mesh.sample_points_uniformly, lines 261-262: a new point cloud of the
\* mesh as it is when sampled
sample_points_uniformly(objs, mesh, name) ==
    Bind(objs, name, [ Val(objs[mesh]) EXCEPT !.kind = "pcd" ])

\* copy.deepcopy(x): a new object equal to x
deepcopy(objs, from, name) == Bind(objs, name, Val(objs[from]))

\* x.transform(t) of open3d and x.apply_transform(t) of trimesh: in place
transform(objs, name, t) ==
    [ objs EXCEPT ![name] = Some([ Val(@) EXCEPT !.pose = Compose(t, @) ]) ]

\* a slip: the two transforms are multiplied in the other order
FinalTransform_reversed(t_icp, t_ransac) == Compose(t_ransac, t_icp)

\* line 304: final_transform = t_icp @ t_ransac
FinalTransform(t_icp, t_ransac) == Compose(t_icp, t_ransac)

\* a stage function at its first line, no object created yet
StageEntry(fn) ==
    [ fn |-> fn, pc |-> "load", objs |-> [ n \in ObjNames |-> None ],
      t_ransac |-> None, t_icp |-> None, final_transform |-> None ]

Topology == {"check_watertight", "check_single_component"}

\* lines 101 and 126: mesh = open3d.io.read_triangle_mesh(str(path))
TopoLoad ==
    /\ heap # None /\ Val(heap).fn \in Topology /\ Val(heap).pc = "load"
    /\ \E normals \in BOOLEAN :
         heap' = Some([ Val(heap) EXCEPT
             !.pc = "clean",
             !.objs = Bind(@, "mesh", Loaded_mesh("o3d", "generated", normals)) ])
    /\ UNCHANGED <<call, modules, direct, completion, code, scorer, peer,
                   parsed>>

\* lines 105 and 130: mesh = clean_mesh(mesh)
TopoClean ==
    /\ heap # None /\ Val(heap).fn \in Topology /\ Val(heap).pc = "clean"
    /\ heap' = Some([ Val(heap) EXCEPT
           !.pc = "test",
           !.objs = clean_mesh_in_place(@, "mesh") ])
    /\ UNCHANGED <<call, modules, direct, completion, code, scorer, peer,
                   parsed>>

\* lines 244-245
SimLoad ==
    /\ heap # None /\ Val(heap).fn = "check_similarity"
    /\ Val(heap).pc = "load"
    /\ \E gn, rn \in BOOLEAN :
         heap' = Some([ Val(heap) EXCEPT
             !.pc = "normals",
             !.objs = Bind(Bind(@, "gen_mesh",
                                Loaded_mesh("o3d", "generated", gn)),
                           "ref_mesh", Loaded_mesh("o3d", "reference", rn)) ])
    /\ UNCHANGED <<call, modules, direct, completion, code, scorer, peer,
                   parsed>>

\* lines 252-256
SimNormals ==
    /\ heap # None /\ Val(heap).fn = "check_similarity"
    /\ Val(heap).pc = "normals"
    /\ LET o  == Val(heap).objs
           o1 == IF ~Val(o["gen_mesh"]).normals
                     THEN compute_vertex_normals(o, "gen_mesh") ELSE o
           o2 == IF ~Val(o1["ref_mesh"]).normals
                     THEN compute_vertex_normals(o1, "ref_mesh") ELSE o1
       IN  heap' = Some([ Val(heap) EXCEPT !.pc = "sample", !.objs = o2 ])
    /\ UNCHANGED <<call, modules, direct, completion, code, scorer, peer,
                   parsed>>

\* lines 259-264
SimSample ==
    /\ heap # None /\ Val(heap).fn = "check_similarity"
    /\ Val(heap).pc = "sample"
    /\ heap' = Some([ Val(heap) EXCEPT
           !.pc = "ransac",
           !.objs = sample_points_uniformly(
                        sample_points_uniformly(@, "gen_mesh", "gen_pcd"),
                        "ref_mesh", "ref_pcd") ])
    /\ UNCHANGED <<call, modules, direct, completion, code, scorer, peer,
                   parsed>>

\* lines 267-289: RANSAC on the downsampled clouds gives t_ransac, and a
\* copy of gen_pcd is moved by it
SimRansac ==
    /\ heap # None /\ Val(heap).fn = "check_similarity"
    /\ Val(heap).pc = "ransac"
    /\ \E t \in Perm3 :
         heap' = Some([ Val(heap) EXCEPT
             !.pc = "icp",
             !.t_ransac = Some(t),
             !.objs = transform(deepcopy(@, "gen_pcd", "gen_pcd_aligned"),
                                "gen_pcd_aligned", t) ])
    /\ UNCHANGED <<call, modules, direct, completion, code, scorer, peer,
                   parsed>>

\* lines 291-304: ICP from the aligned copy gives t_icp
SimIcp ==
    /\ heap # None /\ Val(heap).fn = "check_similarity"
    /\ Val(heap).pc = "icp"
    /\ \E t \in Perm3 :
         heap' = Some([ Val(heap) EXCEPT
             !.pc = "final",
             !.t_icp = Some(t),
             !.final_transform =
                 Some(FinalTransform(t, Val(Val(heap).t_ransac))) ])
    /\ UNCHANGED <<call, modules, direct, completion, code, scorer, peer,
                   parsed>>

\* line 307: gen_pcd_final = copy.deepcopy(gen_pcd).transform(final_transform)
SimFinal ==
    /\ heap # None /\ Val(heap).fn = "check_similarity"
    /\ Val(heap).pc = "final"
    /\ heap' = Some([ Val(heap) EXCEPT
           !.pc = "load_tm",
           !.objs = transform(deepcopy(@, "gen_pcd", "gen_pcd_final"),
                              "gen_pcd_final",
                              Val(Val(heap).final_transform)) ])
    /\ UNCHANGED <<call, modules, direct, completion, code, scorer, peer,
                   parsed>>

\* lines 325-326
SimLoadTm ==
    /\ heap # None /\ Val(heap).fn = "check_similarity"
    /\ Val(heap).pc = "load_tm"
    /\ heap' = Some([ Val(heap) EXCEPT
           !.pc = "apply",
           !.objs = Bind(Bind(@, "gen_tm",
                              Loaded_mesh("trimesh", "generated", FALSE)),
                         "ref_tm", Loaded_mesh("trimesh", "reference", FALSE)) ])
    /\ UNCHANGED <<call, modules, direct, completion, code, scorer, peer,
                   parsed>>

\* line 328: gen_tm.apply_transform(final_transform)
SimApplyTransform ==
    /\ heap # None /\ Val(heap).fn = "check_similarity"
    /\ Val(heap).pc = "apply"
    /\ heap' = Some([ Val(heap) EXCEPT
           !.pc = "bbox",
           !.objs = transform(@, "gen_tm", Val(Val(heap).final_transform)) ])
    /\ UNCHANGED <<call, modules, direct, completion, code, scorer, peer,
                   parsed>>

InitObjects ==
    /\ gen = SoundMesh("generated.stl")
    /\ ref = SoundMesh("reference.stl")
    /\ cfg \in { c \in Configs :
                   /\ c.expected_components = 1
                   /\ c.volume_threshold_percent = DEFAULT_VOLUME_THRESHOLD_PERCENT }
    /\ pc = "stage"
    /\ result = GeometryCheckResult(<<>>)
    /\ vol_ret = None
    /\ sim_ret = None
    /\ sim_env = None
    /\ stages = <<>>
    /\ verdict = None
    /\ modules = Unloaded
    /\ direct = None
    /\ completion = None
    /\ code = None
    /\ scorer = None
    /\ peer = None
    /\ parsed = None
    /\ heap \in { Some(StageEntry(fn)) :
                    fn \in Topology \cup {"check_similarity"} }

NextObjects ==
    \/ TopoLoad
    \/ TopoClean
    \/ SimLoad
    \/ SimNormals
    \/ SimSample
    \/ SimRansac
    \/ SimIcp
    \/ SimFinal
    \/ SimLoadTm
    \/ SimApplyTransform

SpecObjects == InitObjects /\ [][NextObjects]_vars

----------------------------------------------------------------------------
(* Properties of the objects inside check_similarity and the topology      *)
(* stages                                                                  *)

InSimilarity == heap # None /\ Val(heap).fn = "check_similarity"

PoseOf(name) == Val(Val(heap).objs[name]).pose

Bound(name) == Val(heap).objs[name] # None

\* C24: the final transform is t_icp @ t_ransac; the final cloud is a copy
\* of the untransformed generated cloud moved by it, the aligned cloud a
\* copy moved by t_ransac alone, so the coarse transform acts once; and the
\* generated trimesh mesh of the bounding-box check is moved by the same
\* final transform.
C24_FinalTransformOnOriginalCloud ==
    InSimilarity =>
        LET h == Val(heap)
        IN  /\ h.final_transform # None =>
                 Val(h.final_transform) =
                     Compose(Val(h.t_icp), Val(h.t_ransac))
            /\ Bound("gen_pcd") => PoseOf("gen_pcd") = Identity
            /\ Bound("ref_pcd") => PoseOf("ref_pcd") = Identity
            /\ Bound("gen_pcd_aligned") =>
                 PoseOf("gen_pcd_aligned") = Val(h.t_ransac)
            /\ Bound("gen_pcd_final") =>
                 PoseOf("gen_pcd_final") =
                     Compose(Val(h.t_icp), Val(h.t_ransac))
            /\ h.pc = "bbox" =>
                 /\ PoseOf("gen_tm") = Compose(Val(h.t_icp), Val(h.t_ransac))
                 /\ PoseOf("gen_tm") = PoseOf("gen_pcd_final")
                 /\ PoseOf("ref_tm") = Identity

\* both transforms are no identity and do not commute, and the generated
\* mesh has been moved for the bounding-box check
C24_Witness ==
    /\ InSimilarity
    /\ Val(heap).pc = "bbox"
    /\ Compose(Val(Val(heap).t_icp), Val(Val(heap).t_ransac)) #
           Compose(Val(Val(heap).t_ransac), Val(Val(heap).t_icp))
    /\ PoseOf("gen_pcd_final") # PoseOf("gen_pcd_aligned")
    /\ PoseOf("gen_pcd_final") # PoseOf("gen_pcd")

\* C25: every point cloud of check_similarity is sampled from a mesh that
\* went through clean_mesh, as the mesh of the topology stages does before
\* it is tested.
C25_SampledFromCleanedMeshes ==
    /\ InSimilarity =>
         \A n \in {"gen_pcd", "ref_pcd"} :
             Bound(n) => Val(Val(heap).objs[n]).cleaned
    /\ (heap # None /\ Val(heap).fn \in Topology /\ Val(heap).pc = "test") =>
         Val(Val(heap).objs["mesh"]).cleaned

\* the part of C25 that the code keeps: the topology stages test a cleaned
\* mesh
C25_TopologyTestsCleanedMesh ==
    (heap # None /\ Val(heap).fn \in Topology /\ Val(heap).pc = "test") =>
        Val(Val(heap).objs["mesh"]).cleaned

IsMesh(o) == o # None /\ Val(o).kind \in {"o3d", "trimesh"}

\* C26: no step of the checker changes a mesh object that exists: cleaning,
\* normal computation and the bounding-box transform work on copies.
C26_NoMeshMutatedInPlace ==
    [][ heap # None =>
          \A n \in ObjNames :
              IsMesh(Val(heap).objs[n]) =>
                  Val(heap').objs[n] = Val(heap).objs[n] ]_vars

\* the part of C26 that the code keeps: the sampled clouds are never
\* changed, the transforms act on deep copies of them
C26_CloudsNotMutated ==
    [][ heap # None =>
          \A n \in {"gen_pcd", "ref_pcd"} :
              Val(heap).objs[n] # None =>
                  Val(heap').objs[n] = Val(heap).objs[n] ]_vars

----------------------------------------------------------------------------
(* The log analyser reading an explanation back: the text that             *)
(* format_check_results made of a GeometryCheckResult, or the explanation  *)
(* of the Score a call of score returned.                                  *)

\* format_check_results called on a GeometryCheckResult
FormatCheckResults ==
    /\ pc = "constructed"
    /\ direct = None
    /\ direct' = Returns("format_check_results", format_check_results(result))
    /\ UNCHANGED <<call, modules, completion, code, scorer, peer, post>>

\* the explanations written so far
Logged ==
    (IF direct # None /\ Val(direct).fn = "format_check_results"
         THEN { Val(direct).ret } ELSE {})
    \cup
    (IF scorer # None /\ Val(scorer).pc = "done"
         THEN { Val(Val(scorer).explanation) } ELSE {})

\* analyze_results.py:214: parse_sample_checks on a logged explanation
ParseSampleChecks ==
    /\ parsed = None
    /\ \E explanation \in Logged :
         parsed' = Some(parse_sample_checks(explanation))
    /\ UNCHANGED <<call, modules, direct, completion, code, scorer, peer,
                   heap>>

\* error lists as perform_geometry_checks builds them
LogErrors ==
    { <<>>,
      << <<"Watertight: ", "Mesh is not manifold (non-watertight edges)">>,
         <<"Components: ", "Found ", ToString(MaxComponents),
           " components, expected ", ToString(1)>> >>,
      << <<"Volume: ", "Generated mesh not watertight for volume">>,
         <<"Similarity: ", "Distance calculation failed">> >>,
      << <<"Generated file not found: ", "generated.stl">> >> }

\* chamfer_distance, hausdorff_95p, icp_fitness, volume_ratio
LogMetrics ==
    { <<None, None, None, None>>,
      <<None, None, Some(1), Some(<<MaxVol, 1>>)>>,
      <<Some(0), Some(MaxDist), Some(1), Some(<<1, 1>>)>> }

LogResults ==
    { [ GeometryCheckResult(t[7]) EXCEPT
          !.is_watertight = t[1], !.is_single_component = t[2],
          !.bbox_accurate = t[3], !.volume_passed = t[4],
          !.chamfer_passed = t[5], !.hausdorff_passed = t[6],
          !.chamfer_distance = t[8][1], !.hausdorff_95p = t[8][2],
          !.icp_fitness = t[8][3], !.volume_ratio = t[8][4] ] :
        t \in Tri \X Tri \X Tri \X Tri \X Tri \X Tri \X LogErrors
                \X LogMetrics }

InitFormat ==
    /\ gen = Missing("generated.stl")
    /\ ref = Missing("reference.stl")
    /\ cfg \in { c \in Configs :
                   /\ c.expected_components = 1
                   /\ c.volume_threshold_percent = DEFAULT_VOLUME_THRESHOLD_PERCENT }
    /\ pc = "constructed"
    /\ result \in LogResults
    /\ vol_ret = None
    /\ sim_ret = None
    /\ sim_env = None
    /\ stages = <<>>
    /\ verdict = None
    /\ modules = Unloaded
    /\ AuxIdle

NextFormat ==
    \/ FormatCheckResults
    \/ ParseSampleChecks

SpecFormat == InitFormat /\ [][NextFormat]_vars

\* what the executed code can have written to stderr: nothing, a
\* traceback, and the very phrases the analyser looks for
ExecStderrs ==
    { <<>>,
      <<"Traceback", "n", "NameError", ": ", "name", "x">>,
      ERROR_TIMEOUT,
      <<"- ", "Watertight", ": ", "PASS">> }

InitLog ==
    /\ gen \in ScorerGenFiles
    /\ ref \in { SoundMesh("reference.stl"), Missing("reference.stl") }
    /\ cfg \in { c \in Configs :
                   /\ c.expected_components = 1
                   /\ c.volume_threshold_percent = DEFAULT_VOLUME_THRESHOLD_PERCENT }
    /\ pc = "idle"
    /\ result = GeometryCheckResult(<<>>)
    /\ vol_ret = None
    /\ sim_ret = None
    /\ sim_env = None
    /\ stages = <<>>
    /\ verdict = None
    /\ modules = Unloaded
    /\ direct = None
    /\ completion \in { Some(c) : c \in ScorerCompletions }
    /\ code = None
    /\ scorer \in { Some([ ScorerStart EXCEPT !.stderr = e ]) :
                      e \in ExecStderrs }
    /\ peer = None
    /\ parsed = None
    /\ heap = None

NextLog ==
    \/ ScoreExtract
    \/ ScoreExec
    \/ ScoreTestStl
    \/ ScoreReadStl
    \/ GenGate
    \/ WatertightStage
    \/ ComponentStage
    \/ RefGate
    \/ VolumeStage
    \/ SimilarityStage
    \/ ScoreFinish
    \/ ScoreRaise
    \/ ParseSampleChecks

SpecLog == InitLog /\ [][NextLog]_vars

----------------------------------------------------------------------------
(* Properties of the round trip through the explanation *)

Formatted == direct # None /\ Val(direct).fn = "format_check_results"

\* the six tri-state values of the parsed result are those of r
SameChecks(p, r) ==
    /\ p.watertight = r.is_watertight
    /\ p.single_component = r.is_single_component
    /\ p.bbox_accurate = r.bbox_accurate
    /\ p.volume_passed = r.volume_passed
    /\ p.chamfer_passed = r.chamfer_passed
    /\ p.hausdorff_passed = r.hausdorff_passed

C28_ScoreRoundTrip ==
    (scorer # None /\ Val(scorer).pc = "done" /\ Val(scorer).exit = "checked"
       /\ parsed # None) =>
        /\ SameChecks(Val(parsed), result)
        /\ Val(parsed).code_executed
        /\ Val(parsed).stl_created

ExitIs(exits) ==
    scorer # None /\ Val(scorer).pc = "done" /\ Val(scorer).exit \in exits

\* C29: of the explanation of an early exit of score, parse_sample_checks
\* reports code_executed False exactly for the no-code, timeout and
\* execution-failed exits, stl_created False for those and the no-STL
\* exit, and both True with the six checks None for the exits after the
\* STL exists.
C29_EarlyExitsClassified ==
    (parsed # None /\ ~ExitIs({"checked"})) =>
        LET p == Val(parsed)
        IN  /\ ~p.code_executed <=>
                 ExitIs({"no_code", "timeout", "exec_failed"})
            /\ ~p.stl_created <=>
                 ExitIs({"no_code", "timeout", "exec_failed", "no_stl"})
            /\ ExitIs({"read_failed", "decode_failed", "ref_not_found"}) =>
                 /\ p.code_executed /\ p.stl_created
                 /\ SameChecks(p, GeometryCheckResult(<<>>))
            /\ ExitIs({"no_code", "timeout", "exec_failed", "no_stl",
                       "read_failed", "decode_failed", "ref_not_found"})

\* the explanation of the no-STL exit read back
C29_Witness ==
    /\ parsed # None
    /\ ExitIs({"no_stl"})
    /\ Val(parsed).code_executed
    /\ ~Val(parsed).stl_created

====
